---- MODULE Spec2Model ----
(***************************************************************************)
(* A model of the PBFT client and replica of src/src/pbft.rs, run over an  *)
(* unordered, duplicating network (a set of (address, message) pairs, as   *)
(* in src/src/model/search/state.rs) with an asynchronous FIFO crypto      *)
(* worker per replica.                                                     *)
(***************************************************************************)
EXTENDS Naturals, Integers, Sequences, FiniteSets, TLC

(***************************************************************************)
(* Configuration and bounds                                                *)
(***************************************************************************)

\* num_faulty given to Replica::new and Client::new
NumFaulty == 1

\* num_replica given to Replica::new and Client::new: n = 3f + 1
NumReplica == 3 * NumFaulty + 1

ReplicaIds == 0 .. (NumReplica - 1)

\* the largest op_num the primary allocates and the environment names
MaxOp == 1

\* the largest number of jobs waiting in one replica's crypto worker
MaxWork == 3

\* the largest number of verifications queued behind the one in flight
MaxPending == 1

\* the largest number of operations an application executes
MaxExec == 2

\* the largest number of distinct replies the open environment of the client
\* hands to it
MaxReplies == 4

OpNums == 1 .. MaxOp

\* the id and address of the one client
ClientId == 7

ClientAddr == <<"Client", ClientId>>

ReplicaAddr(i) == <<"Replica", i>>

(***************************************************************************)
(* Maps with optional keys (HashMap), and Option as a sequence of length   *)
(* at most one                                                             *)
(***************************************************************************)

Put(f, k, v) == [x \in (DOMAIN f) \cup {k} |-> IF x = k THEN v ELSE f[x]]

Del(f, k) == [x \in (DOMAIN f) \ {k} |-> f[x]]

EmptyMap == [x \in {} |-> {}]

IsSome(o) == Len(o) > 0

(***************************************************************************)
(* Requests, digests and signatures                                        *)
(***************************************************************************)

Request(seq, op) ==
    [client_id |-> ClientId, client_addr |-> ClientAddr, seq |-> seq, op |-> op]

\* DigestHash::sha256 of a requests vector: collision free, so a digest is
\* modelled as a tagged copy of what was hashed
sha256(requests) == <<"sha256", requests>>

\* Crypto::sign: the signature names the signer
sign(signer, message) == [message EXCEPT !.signature = signer]

\* Crypto::verify(&replica_id, &message)
verify(replica_id, message) == message.signature = replica_id

Unsigned == NumReplica

PrePrepare(view_num, op_num, digest) ==
    [type |-> "PrePrepare", view_num |-> view_num, op_num |-> op_num,
     digest |-> digest, signature |-> Unsigned]

Prepare(view_num, op_num, digest, replica_id) ==
    [type |-> "Prepare", view_num |-> view_num, op_num |-> op_num,
     digest |-> digest, replica_id |-> replica_id, signature |-> Unsigned]

Commit(view_num, op_num, digest, replica_id) ==
    [type |-> "Commit", view_num |-> view_num, op_num |-> op_num,
     digest |-> digest, replica_id |-> replica_id, signature |-> Unsigned]

Reply(seq, result, view_num, replica_id) ==
    [type |-> "Reply", seq |-> seq, result |-> result, view_num |-> view_num,
     replica_id |-> replica_id]

\* the ToReplica variants on the wire; a Signed<Prepare> or Signed<Commit>
\* travels as itself
ToReplicaRequest(request) == [type |-> "Request", request |-> request]

ToReplicaPrePrepare(pre_prepare, requests) ==
    [type |-> "PrePrepareRequests", pre_prepare |-> pre_prepare, requests |-> requests]

\* a job submitted to the crypto worker
Job(kind, message, requests, replica_id) ==
    [kind |-> kind, message |-> message, requests |-> requests,
     replica_id |-> replica_id]

\* App::execute: deterministic result of an op
AppResult(op) == <<"result", op>>

(***************************************************************************)
(* Replica                                                                 *)
(***************************************************************************)

\* LogEntry::default
DefaultEntry ==
    [view_num |-> 0, pre_prepare |-> <<>>, requests |-> <<>>,
     prepares |-> {}, commits |-> {}]

\* Replica::new.  log is a Vec indexed by op_num from 0: log[op_num] is the
\* element op_num + 1 of the sequence.  status and out are not fields of the
\* struct: status tells whether the event loop still runs ("running"), a
\* handler panicked ("panicked") or a handler spins in the loop of
\* insert_commit ("looping"); out collects what a handler sends; signed is
\* the history of the SignedPrepare and SignedCommit events handled;
\* failed_assertion tells whether the panic was a failed assert!.
NewReplica(id) ==
    [id |-> id, view_num |-> 0, op_num |-> 0, commit_num |-> 0,
     on_request |-> EmptyMap, requests |-> <<>>, log |-> <<>>,
     prepare_quorums |-> EmptyMap, commit_quorums |-> EmptyMap,
     on_verified_prepare |-> EmptyMap, on_verified_commit |-> EmptyMap,
     app |-> <<>>, crypto_worker |-> <<>>, status |-> "running", out |-> {},
     signed |-> <<>>, failed_assertion |-> FALSE]

\* self.log.get(op_num).is_some()
LogHas(s, op_num) == op_num + 1 <= Len(s.log)

\* self.log[op_num]
LogAt(s, op_num) == s.log[op_num + 1]

\* self.log.resize_with(len, Default::default): called only to grow
resize_with(log, len) ==
    [i \in 1 .. (IF len > Len(log) THEN len ELSE Len(log)) |->
        IF i <= Len(log) THEN log[i] ELSE DefaultEntry]

\* a panic (assert!, unwrap of None, todo!) ends the replica
Panic(s) == [s EXCEPT !.status = "panicked"]

\* the panic of an assert! whose condition is false
AssertionFailed(s) == [Panic(s) EXCEPT !.failed_assertion = TRUE]

\* SendMessage::send
Send(s, dest, message) == [s EXCEPT !.out = @ \cup {<<dest, message>>}]

\* SendMessage::send_to_all: every replica except the sender
send_to_all(s, message) ==
    [s EXCEPT !.out = @ \cup {<<ReplicaAddr(j), message>> : j \in ReplicaIds \ {s.id}}]

\* Worker::submit: the job joins the FIFO queue of the replica's worker
submit(s, job) == [s EXCEPT !.crypto_worker = Append(@, job)]

\* HashMap::insert(replica_id, message) on a quorum: a second message of the
\* same replica replaces the first
QuorumInsert(quorum, message) ==
    {m \in quorum : m.replica_id # message.replica_id} \cup {message}

\* HashMap::retain(|_, m| m.digest == digest)
Retain(quorum, digest) == {m \in quorum : m.digest = digest}

is_primary(s) == (s.id % NumReplica) = s.view_num

\* the closure installed while a client's request is in consensus
Ongoing == [ongoing |-> TRUE, seq |-> 0, reply |-> Reply(0, <<>>, 0, 0)]

\* the closure installed by insert_commit after executing a request
Replied(seq, reply) == [ongoing |-> FALSE, seq |-> seq, reply |-> reply]

\* calling an OnRequest closure: whether it handled the request, what it sent
CallOnRequest(closure, request) ==
    IF closure.ongoing THEN [handled |-> TRUE, send |-> FALSE]
    ELSE IF request.seq < closure.seq THEN [handled |-> TRUE, send |-> FALSE]
    ELSE IF request.seq = closure.seq THEN [handled |-> TRUE, send |-> TRUE]
    ELSE [handled |-> FALSE, send |-> FALSE]

on_ingress_request(s, request) ==
    LET known == request.client_id \in DOMAIN s.on_request
        call == IF known THEN CallOnRequest(s.on_request[request.client_id], request)
                ELSE [handled |-> FALSE, send |-> FALSE]
    IN  IF call.handled
        THEN IF call.send
             THEN Send(s, request.client_addr, s.on_request[request.client_id].reply)
             ELSE s
        ELSE IF ~is_primary(s) THEN Panic(s)
        ELSE [s EXCEPT !.on_request = Put(@, request.client_id, Ongoing),
                       !.requests = Append(@, request)]

\* closing a batch: allocate the next op_num, digest the requests and submit
\* the PrePrepare for signing
close_batch(s) ==
    LET op_num == s.op_num + 1
        pre_prepare == PrePrepare(s.view_num, op_num, sha256(s.requests))
    IN  submit([s EXCEPT !.op_num = op_num, !.requests = <<>>],
               Job("SignPrePrepare", pre_prepare, s.requests, s.id))

on_signed_pre_prepare(s, pre_prepare, requests) ==
    IF pre_prepare.view_num # s.view_num THEN s
    ELSE
    LET log == IF LogHas(s, pre_prepare.op_num) THEN s.log
               ELSE resize_with(s.log, pre_prepare.op_num + 1)
        i == pre_prepare.op_num + 1
    IN  IF IsSome(log[i].pre_prepare)
        THEN AssertionFailed([s EXCEPT !.log = [log EXCEPT ![i].pre_prepare = <<pre_prepare>>]])
        ELSE send_to_all(
               [s EXCEPT !.log = [log EXCEPT ![i].pre_prepare = <<pre_prepare>>,
                                             ![i].view_num = s.view_num,
                                             ![i].requests = requests]],
               ToReplicaPrePrepare(pre_prepare, requests))

on_ingress_pre_prepare(s, pre_prepare, requests) ==
    IF pre_prepare.view_num # s.view_num
    THEN IF pre_prepare.view_num > s.view_num THEN Panic(s) ELSE s
    ELSE IF LogHas(s, pre_prepare.op_num)
            /\ IsSome(LogAt(s, pre_prepare.op_num).pre_prepare)
    THEN s
    ELSE submit(s, Job("VerifyPrePrepare", pre_prepare, requests,
                       pre_prepare.view_num % NumReplica))

prepared(s, op_num) ==
    LET s1 == [s EXCEPT !.on_verified_prepare = Del(@, op_num)]
    IN  IF ~IsSome(LogAt(s1, op_num).pre_prepare) THEN Panic(s1)
        ELSE submit(s1, Job("SignCommit",
                            Commit(s1.view_num, op_num,
                                   LogAt(s1, op_num).pre_prepare[1].digest, s1.id),
                            <<>>, s1.id))

\* on_verified_pre_prepare without the test of lines 404-406: a verified
\* pre-prepare is installed over the one the entry holds
on_verified_pre_prepare_overwriting(s, pre_prepare, requests) ==
    IF pre_prepare.view_num # s.view_num THEN s
    ELSE
    LET op_num == pre_prepare.op_num
        log == IF LogHas(s, op_num) THEN s.log ELSE resize_with(s.log, op_num + 1)
    IN  [s EXCEPT !.log = [log EXCEPT ![op_num + 1].pre_prepare = <<pre_prepare>>,
                                      ![op_num + 1].view_num = s.view_num,
                                      ![op_num + 1].requests = requests]]

on_verified_pre_prepare(s, pre_prepare, requests) ==
    IF pre_prepare.view_num # s.view_num THEN s
    ELSE
    LET op_num == pre_prepare.op_num
        i == op_num + 1
        log == IF LogHas(s, op_num) THEN s.log ELSE resize_with(s.log, op_num + 1)
    IN  IF IsSome(log[i].pre_prepare) THEN [s EXCEPT !.log = log]
        ELSE
        LET s1 == [s EXCEPT !.log = [log EXCEPT ![i].pre_prepare = <<pre_prepare>>,
                                                ![i].view_num = s.view_num,
                                                ![i].requests = requests]]
            s2 == submit(s1, Job("SignPrepare",
                                 Prepare(s1.view_num, op_num, pre_prepare.digest, s1.id),
                                 <<>>, s1.id))
            s3 == IF op_num \in DOMAIN s2.commit_quorums
                  THEN [s2 EXCEPT !.commit_quorums[op_num] = Retain(@, pre_prepare.digest)]
                  ELSE s2
        IN  IF op_num \in DOMAIN s3.prepare_quorums
            THEN LET prepare_quorum == Retain(s3.prepare_quorums[op_num], pre_prepare.digest)
                     s4 == [s3 EXCEPT !.prepare_quorums[op_num] = prepare_quorum]
                 IN  IF Cardinality(prepare_quorum) >= NumReplica - NumFaulty
                     THEN IF LogAt(s4, op_num).prepares # {} THEN AssertionFailed(s4)
                          ELSE prepared([s4 EXCEPT !.log[i].prepares = prepare_quorum,
                                                   !.prepare_quorums = Del(@, op_num)],
                                        op_num)
                     ELSE s4
            ELSE s3

\* insert_prepare that freezes one prepare short of the quorum
insert_prepare_short(s, prepare) ==
    LET op_num == prepare.op_num
        prepare_quorum ==
            QuorumInsert(IF op_num \in DOMAIN s.prepare_quorums
                         THEN s.prepare_quorums[op_num] ELSE {}, prepare)
        s1 == [s EXCEPT !.prepare_quorums = Put(@, op_num, prepare_quorum)]
    IN  IF Cardinality(prepare_quorum) < NumReplica - NumFaulty - 1 THEN s1
        ELSE IF ~LogHas(s1, op_num) THEN s1
        ELSE IF LogAt(s1, op_num).prepares # {} THEN AssertionFailed(s1)
        ELSE prepared([s1 EXCEPT !.log[op_num + 1].prepares = prepare_quorum,
                                 !.prepare_quorums = Del(@, op_num)],
                      op_num)

insert_prepare(s, prepare) ==
    LET op_num == prepare.op_num
        prepare_quorum ==
            QuorumInsert(IF op_num \in DOMAIN s.prepare_quorums
                         THEN s.prepare_quorums[op_num] ELSE {}, prepare)
        s1 == [s EXCEPT !.prepare_quorums = Put(@, op_num, prepare_quorum)]
    IN  IF Cardinality(prepare_quorum) < NumReplica - NumFaulty THEN s1
        ELSE IF ~LogHas(s1, op_num) THEN s1
        ELSE IF LogAt(s1, op_num).prepares # {} THEN AssertionFailed(s1)
        ELSE prepared([s1 EXCEPT !.log[op_num + 1].prepares = prepare_quorum,
                                 !.prepare_quorums = Del(@, op_num)],
                      op_num)

on_signed_prepare(s, prepare) ==
    IF prepare.view_num # s.view_num THEN s
    ELSE insert_prepare(send_to_all(s, prepare), prepare)

on_ingress_prepare(s, prepare) ==
    IF prepare.view_num # s.view_num
    THEN IF prepare.view_num > s.view_num THEN Panic(s) ELSE s
    ELSE IF LogHas(s, prepare.op_num)
            /\ (\/ LogAt(s, prepare.op_num).prepares # {}
                \/ /\ IsSome(LogAt(s, prepare.op_num).pre_prepare)
                   /\ prepare.digest # LogAt(s, prepare.op_num).pre_prepare[1].digest)
    THEN s
    ELSE IF prepare.op_num \in DOMAIN s.on_verified_prepare
    THEN [s EXCEPT !.on_verified_prepare[prepare.op_num] = Append(@, prepare)]
    ELSE submit([s EXCEPT !.on_verified_prepare = Put(@, prepare.op_num, <<>>)],
                Job("VerifyPrepare", prepare, <<>>, prepare.replica_id))

on_verified_prepare(s, prepare) ==
    IF prepare.view_num # s.view_num THEN s
    ELSE
    LET op_num == prepare.op_num
        s1 == insert_prepare(s, prepare)
    IN  IF s1.status # "running" THEN s1
        ELSE IF op_num \in DOMAIN s1.on_verified_prepare
        THEN LET on_verified == s1.on_verified_prepare[op_num]
             IN  IF Len(on_verified) > 0
                 THEN submit([s1 EXCEPT !.on_verified_prepare[op_num] =
                                            SubSeq(on_verified, 1, Len(on_verified) - 1)],
                             Job("VerifyPrepare", on_verified[Len(on_verified)], <<>>,
                                 on_verified[Len(on_verified)].replica_id))
                 ELSE [s1 EXCEPT !.on_verified_prepare = Del(@, op_num)]
        ELSE s1

\* the body of the for loop of insert_commit over entry.requests, from the
\* i-th request on: execute, build the Reply, call the new on_request closure
\* on the request itself (which sends the Reply) and install the closure
RECURSIVE ExecuteRequests(_, _, _)
ExecuteRequests(s, requests, i) ==
    IF i > Len(requests) THEN s
    ELSE LET request == requests[i]
             reply == Reply(request.seq, AppResult(request.op), s.view_num, s.id)
             s1 == [s EXCEPT !.app = Append(@, request.op)]
             s2 == Send(s1, request.client_addr, reply)
         IN  ExecuteRequests(
               [s2 EXCEPT !.on_request =
                              Put(@, request.client_id, Replied(request.seq, reply))],
               requests, i + 1)

\* one test of the condition of the while loop of insert_commit and, when it
\* holds, one pass of its body.  The body never changes commit_num or the
\* log, so once it is entered the condition holds forever: the handler
\* keeps passing through the body and never returns.
CommitLoop(s) ==
    IF LogHas(s, s.commit_num + 1) /\ LogAt(s, s.commit_num + 1).commits # {}
    THEN [ExecuteRequests(s, LogAt(s, s.commit_num + 1).requests, 1)
            EXCEPT !.status = "looping"]
    ELSE s

\* insert_commit without the test of lines 611-613: a commit quorum freezes
\* whether or not the entry is prepared
insert_commit_unprepared(s, commit) ==
    LET op_num == commit.op_num
        commit_quorum ==
            QuorumInsert(IF op_num \in DOMAIN s.commit_quorums
                         THEN s.commit_quorums[op_num] ELSE {}, commit)
        s1 == [s EXCEPT !.commit_quorums = Put(@, op_num, commit_quorum)]
    IN  IF Cardinality(commit_quorum) < NumReplica - NumFaulty THEN s1
        ELSE IF ~LogHas(s1, op_num) THEN s1
        ELSE IF LogAt(s1, op_num).commits # {} THEN AssertionFailed(s1)
        ELSE CommitLoop([s1 EXCEPT !.log[op_num + 1].commits = commit_quorum,
                                   !.commit_quorums = Del(@, op_num)])

insert_commit(s, commit) ==
    LET op_num == commit.op_num
        commit_quorum ==
            QuorumInsert(IF op_num \in DOMAIN s.commit_quorums
                         THEN s.commit_quorums[op_num] ELSE {}, commit)
        s1 == [s EXCEPT !.commit_quorums = Put(@, op_num, commit_quorum)]
    IN  IF Cardinality(commit_quorum) < NumReplica - NumFaulty THEN s1
        ELSE IF ~LogHas(s1, op_num) THEN s1
        ELSE IF LogAt(s1, op_num).prepares = {} THEN s1
        ELSE IF LogAt(s1, op_num).commits # {} THEN AssertionFailed(s1)
        ELSE CommitLoop([s1 EXCEPT !.log[op_num + 1].commits = commit_quorum,
                                   !.commit_quorums = Del(@, op_num)])

on_signed_commit(s, commit) ==
    IF commit.view_num # s.view_num THEN s
    ELSE insert_commit(send_to_all(s, commit), commit)

on_ingress_commit(s, commit) ==
    IF commit.view_num # s.view_num
    THEN IF commit.view_num > s.view_num THEN Panic(s) ELSE s
    ELSE IF LogHas(s, commit.op_num)
            /\ (\/ LogAt(s, commit.op_num).commits # {}
                \/ /\ IsSome(LogAt(s, commit.op_num).pre_prepare)
                   /\ commit.digest # LogAt(s, commit.op_num).pre_prepare[1].digest)
    THEN s
    ELSE IF commit.op_num \in DOMAIN s.on_verified_commit
    THEN [s EXCEPT !.on_verified_commit[commit.op_num] = Append(@, commit)]
    ELSE submit([s EXCEPT !.on_verified_commit = Put(@, commit.op_num, <<>>)],
                Job("VerifyCommit", commit, <<>>, commit.replica_id))

on_verified_commit(s, commit) ==
    IF commit.view_num # s.view_num THEN s
    ELSE
    LET op_num == commit.op_num
        s1 == insert_commit(s, commit)
    IN  IF s1.status # "running" THEN s1
        ELSE IF op_num \in DOMAIN s1.on_verified_commit
        THEN LET on_verified == s1.on_verified_commit[op_num]
             IN  IF Len(on_verified) > 0
                 THEN submit([s1 EXCEPT !.on_verified_commit[op_num] =
                                            SubSeq(on_verified, 1, Len(on_verified) - 1)],
                             Job("VerifyCommit", on_verified[Len(on_verified)], <<>>,
                                 on_verified[Len(on_verified)].replica_id))
                 ELSE [s1 EXCEPT !.on_verified_commit = Del(@, op_num)]
        ELSE s1

\* to_replica_on_buf and Replica::on_event for the events that come from
\* the network
OnIngress(s, message) ==
    CASE message.type = "Request" -> on_ingress_request(s, message.request)
      [] message.type = "PrePrepareRequests" ->
            on_ingress_pre_prepare(s, message.pre_prepare, message.requests)
      [] message.type = "Prepare" -> on_ingress_prepare(s, message)
      [] message.type = "Commit" -> on_ingress_commit(s, message)

\* the closure of a job run by the crypto worker, and Replica::on_event for
\* the event the closure sends back, if it sends one
OnWorkDone(s, job) ==
    CASE job.kind = "SignPrePrepare" ->
            on_signed_pre_prepare(s, sign(s.id, job.message), job.requests)
      [] job.kind = "VerifyPrePrepare" ->
            IF sha256(job.requests) = job.message.digest
               /\ verify(job.replica_id, job.message)
            THEN on_verified_pre_prepare(s, job.message, job.requests)
            ELSE s
      [] job.kind = "SignPrepare" ->
            on_signed_prepare(
                [s EXCEPT !.signed = Append(@, <<"SignedPrepare", job.message.op_num>>)],
                sign(s.id, job.message))
      [] job.kind = "VerifyPrepare" ->
            IF verify(job.replica_id, job.message)
            THEN on_verified_prepare(s, job.message)
            ELSE s
      [] job.kind = "SignCommit" ->
            on_signed_commit(
                [s EXCEPT !.signed = Append(@, <<"SignedCommit", job.message.op_num>>)],
                sign(s.id, job.message))
      [] job.kind = "VerifyCommit" ->
            IF verify(job.replica_id, job.message)
            THEN on_verified_commit(s, job.message)
            ELSE s

(***************************************************************************)
(* Client, driven by Session::run of src/src/event.rs                      *)
(***************************************************************************)

\* Client::new and Session::new.  timer_id and timers are the fields of the
\* Session that runs the client; tasks holds the ids of the spawned timer
\* tasks that still sleep, channel the timer events sent to the Session and
\* not yet received, handled the timer events that reached the handler;
\* upcalls lists what the client sent to its upcall, each with the seq it
\* was sent for; status is "running" until a handler returns an error or
\* panics, which ends Session::run.
NewClient ==
    [id |-> ClientId, seq |-> 0, invoke |-> <<>>, view_num |-> 0,
     timer_id |-> 0, timers |-> {}, tasks |-> {}, channel |-> <<>>,
     handled |-> <<>>, upcalls |-> <<>>, status |-> "running",
     out |-> {}]

\* Client::do_send; the unwrap of self.invoke panics when there is none
do_send(c) ==
    IF ~IsSome(c.invoke) THEN [c EXCEPT !.status = "panicked"]
    ELSE [c EXCEPT !.out = @ \cup
            {<<ReplicaAddr(c.view_num % NumReplica),
               ToReplicaRequest(Request(c.seq, c.invoke[1].op))>>}]

\* Client::on_invoke without the test for a concurrent invocation
on_invoke_replacing(c, op) ==
    do_send([c EXCEPT !.seq = @ + 1,
                      !.timer_id = @ + 1,
                      !.timers = @ \cup {c.timer_id + 1},
                      !.tasks = @ \cup {c.timer_id + 1},
                      !.invoke = <<[op |-> op, resend_timer |-> c.timer_id + 1,
                                    replies |-> {}]>>])

\* Client::on_invoke with SessionTimer::set_internal, which spawns the task
\* that sleeps and then sends the timer event once
on_invoke(c, op) ==
    IF IsSome(c.invoke) THEN [c EXCEPT !.status = "failed"]
    ELSE do_send([c EXCEPT !.seq = @ + 1,
                           !.timer_id = @ + 1,
                           !.timers = @ \cup {c.timer_id + 1},
                           !.tasks = @ \cup {c.timer_id + 1},
                           !.invoke = <<[op |-> op, resend_timer |-> c.timer_id + 1,
                                         replies |-> {}]>>])

on_resend_timeout(c) == do_send(c)

\* Client::on_ingress that counts the replies whatever their result
on_ingress_any_result(c, reply) ==
    IF reply.seq # c.seq THEN c
    ELSE IF ~IsSome(c.invoke) THEN c
    ELSE
    LET replies == QuorumInsert(c.invoke[1].replies, reply)
    IN  IF Cardinality(replies) = NumFaulty + 1
        THEN LET c1 == [c EXCEPT !.view_num = reply.view_num, !.invoke = <<>>]
             IN  IF c.invoke[1].resend_timer \notin c1.timers
                 THEN [c1 EXCEPT !.status = "failed"]
                 ELSE [c1 EXCEPT !.timers = @ \ {c.invoke[1].resend_timer},
                                 !.upcalls = Append(@, [id |-> c.id, seq |-> c.seq,
                                                        result |-> reply.result])]
        ELSE [c EXCEPT !.invoke[1].replies = replies]

\* Client::on_ingress with SessionTimer::unset, whose error ends the handler
\* before the upcall
on_ingress(c, reply) ==
    IF reply.seq # c.seq THEN c
    ELSE IF ~IsSome(c.invoke) THEN c
    ELSE
    LET replies == QuorumInsert(c.invoke[1].replies, reply)
    IN  IF Cardinality({r \in replies : r.result = reply.result}) = NumFaulty + 1
        THEN LET c1 == [c EXCEPT !.view_num = reply.view_num, !.invoke = <<>>]
             IN  IF c.invoke[1].resend_timer \notin c1.timers
                 THEN [c1 EXCEPT !.status = "failed"]
                 ELSE [c1 EXCEPT !.timers = @ \ {c.invoke[1].resend_timer},
                                 !.upcalls = Append(@, [id |-> c.id, seq |-> c.seq,
                                                        result |-> reply.result])]
        ELSE [c EXCEPT !.invoke[1].replies = replies]

(***************************************************************************)
(* The virtual timers of the search model, src/src/model/search/state.rs   *)
(***************************************************************************)

\* Duration::MAX, longer than every period a timer is set with
DurationMAX == 1000000

\* Schedule::new
Schedule_new == [envelops |-> <<>>, count |-> 0]

\* Schedule::set; the TimerId it returns is the new count
Schedule_set(schedule, period, event) ==
    [envelops |-> Append(schedule.envelops,
                         [id |-> schedule.count + 1, period |-> period,
                          event |-> event]),
     count |-> schedule.count + 1]

\* the position test of Schedule::remove: false makes remove, unset and tick
\* return an error
Schedule_has(schedule, id) ==
    \E k \in DOMAIN schedule.envelops : schedule.envelops[k].id = id

\* Schedule::remove and Schedule::unset of an id the schedule has
Schedule_remove(schedule, id) ==
    [schedule EXCEPT !.envelops = SelectSeq(@, LAMBDA envelop : envelop.id # id)]

\* Schedule::tick of an id the schedule has: the envelop moves to the end
Schedule_tick(schedule, id) ==
    [schedule EXCEPT !.envelops =
        SelectSeq(@, LAMBDA envelop : envelop.id # id)
            \o SelectSeq(@, LAMBDA envelop : envelop.id = id)]

\* the map_while of Schedule::events: the iteration ends at the first
\* envelop whose period is not below the limit, and each envelop it yields
\* lowers the limit to its period
RECURSIVE map_while(_, _)
map_while(envelops, limit) ==
    IF envelops = <<>> THEN <<>>
    ELSE IF Head(envelops).period >= limit THEN <<>>
    ELSE <<Head(envelops)>> \o map_while(Tail(envelops), Head(envelops).period)

\* a map_while that ends only at an envelop whose period is above the limit,
\* so that it goes on over equal periods
RECURSIVE map_while_over_ties(_, _)
map_while_over_ties(envelops, limit) ==
    IF envelops = <<>> THEN <<>>
    ELSE IF Head(envelops).period > limit THEN <<>>
    ELSE <<Head(envelops)>> \o map_while_over_ties(Tail(envelops), Head(envelops).period)

\* Schedule::events with that map_while
Schedule_events_over_ties(schedule) == map_while_over_ties(schedule.envelops, DurationMAX)

\* Schedule::events: the envelops whose (TimerId, event) it yields
Schedule_events(schedule) == map_while(schedule.envelops, DurationMAX)

(***************************************************************************)
(* The unreplicated protocol and its search model, src/src/unreplicated.rs *)
(***************************************************************************)

\* model::Addr
AddrClient(index) == <<"Client", index>>

AddrServer == <<"Server">>

\* unreplicated::Request and unreplicated::Reply, as model::Message
unreplicated_Request(client_id, seq, op) ==
    [type |-> "Request", seq |-> seq, op |-> op, client_id |-> client_id,
     client_addr |-> AddrClient(client_id)]

unreplicated_Reply(seq, result) == [type |-> "Reply", seq |-> seq, result |-> result]

\* the period of the client's resend timer, in milliseconds
ResendPeriod == 100

\* the number of ops of a client's workload
WorkloadLen == 3

\* the k-th op of the workload of client index
WorkloadOp(index, k) == <<"op", index, k>>

\* CloseLoop::new: sender holds the Invoke the close loop wants handled next,
\* count the ops it has taken from the workload
CloseLoop_new == [sender |-> <<>>, count |-> 0]

\* CloseLoop::init, and CloseLoop on InvokeOk: the next op of the workload,
\* if one is left, becomes the Invoke to handle
CloseLoop_next(upcall, index) ==
    IF upcall.count < WorkloadLen
    THEN [sender |-> <<WorkloadOp(index, upcall.count + 1)>>,
          count |-> upcall.count + 1]
    ELSE upcall

\* ClientState::new with the ClientContextState of push_client: upcall and
\* schedule are the context's, upcalls lists the InvokeOk sent to the upcall
\* with the seq each was sent at, out collects what a handler sends, status
\* is "running" until a handler returns an error
ClientState_new(index) ==
    [id |-> index, addr |-> AddrClient(index), seq |-> 0, outstanding |-> <<>>,
     upcall |-> CloseLoop_new, schedule |-> Schedule_new, upcalls |-> <<>>,
     out |-> {}, status |-> "running"]

\* ClientState::send_request; the expect panics without an outstanding
\* invocation
send_request(c) ==
    IF ~IsSome(c.outstanding) THEN [c EXCEPT !.status = "panicked"]
    ELSE [c EXCEPT !.out = @ \cup
            {<<AddrServer, unreplicated_Request(c.id, c.seq, c.outstanding[1].op)>>}]

\* ClientState::on_event(Invoke): seq, the timer and outstanding change
\* before the ensure!
ClientState_on_invoke(c, op) ==
    LET c1 == [c EXCEPT !.seq = @ + 1,
                        !.schedule = Schedule_set(@, ResendPeriod, "ClientResend"),
                        !.outstanding = <<[op |-> op, timer |-> c.schedule.count + 1]>>]
    IN  IF IsSome(c.outstanding) THEN [c1 EXCEPT !.status = "failed"]
        ELSE send_request(c1)

\* ClientState::on_event(Recv<Reply>) without the test of the reply's seq
ClientState_on_reply_any_seq(c, reply) ==
    IF ~IsSome(c.outstanding) THEN c
    ELSE
    LET c1 == [c EXCEPT !.outstanding = <<>>]
    IN  IF ~Schedule_has(c1.schedule, c.outstanding[1].timer)
        THEN [c1 EXCEPT !.status = "failed"]
        ELSE [c1 EXCEPT !.schedule = Schedule_remove(@, c.outstanding[1].timer),
                        !.upcalls = Append(@, [seq |-> c.seq, result |-> reply.result]),
                        !.upcall = CloseLoop_next(@, c.id)]

\* ClientState::on_event(Recv<Reply>) without the unset of the timer
ClientState_on_reply_keeping_timer(c, reply) ==
    IF reply.seq # c.seq THEN c
    ELSE IF ~IsSome(c.outstanding) THEN c
    ELSE [c EXCEPT !.outstanding = <<>>,
                   !.upcalls = Append(@, [seq |-> c.seq, result |-> reply.result]),
                   !.upcall = CloseLoop_next(@, c.id)]

\* ClientState::on_event(Recv<Reply>), with the close loop's handling of the
\* InvokeOk sent to the upcall
ClientState_on_reply(c, reply) ==
    IF reply.seq # c.seq THEN c
    ELSE IF ~IsSome(c.outstanding) THEN c
    ELSE
    LET c1 == [c EXCEPT !.outstanding = <<>>]
    IN  IF ~Schedule_has(c1.schedule, c.outstanding[1].timer)
        THEN [c1 EXCEPT !.status = "failed"]
        ELSE [c1 EXCEPT !.schedule = Schedule_remove(@, c.outstanding[1].timer),
                        !.upcalls = Append(@, [seq |-> c.seq, result |-> reply.result]),
                        !.upcall = CloseLoop_next(@, c.id)]

\* ClientState::on_event(Resend)
ClientState_on_resend(c) == send_request(c)

\* App::execute: the app is modelled by the ops it has executed, and the
\* result tells the op and how many ops the app had executed before it
execute(app, op) == <<"result", op, Len(app)>>

\* ServerState::new; executed is the history of the (client_id, seq) of the
\* requests the server executed
ServerState_new == [replies |-> EmptyMap, app |-> <<>>, executed |-> <<>>, out |-> {}]

\* ServerState::on_event(Recv<Request>) that executes every request whose
\* seq differs from the cached one
ServerState_on_request_no_drop(sv, request) ==
    IF request.client_id \in DOMAIN sv.replies
       /\ sv.replies[request.client_id].seq = request.seq
    THEN [sv EXCEPT !.out = @ \cup {<<request.client_addr, sv.replies[request.client_id]>>}]
    ELSE
    LET reply == unreplicated_Reply(request.seq, execute(sv.app, request.op))
    IN  [sv EXCEPT !.app = Append(@, request.op),
                   !.executed = Append(@, <<request.client_id, request.seq>>),
                   !.replies = Put(@, request.client_id, reply),
                   !.out = @ \cup {<<request.client_addr, reply>>}]

\* ServerState::on_event(Recv<Request>)
ServerState_on_request(sv, request) ==
    IF request.client_id \in DOMAIN sv.replies
       /\ sv.replies[request.client_id].seq > request.seq
    THEN sv
    ELSE IF request.client_id \in DOMAIN sv.replies
            /\ sv.replies[request.client_id].seq = request.seq
    THEN [sv EXCEPT !.out = @ \cup {<<request.client_addr, sv.replies[request.client_id]>>}]
    ELSE
    LET reply == unreplicated_Reply(request.seq, execute(sv.app, request.op))
    IN  [sv EXCEPT !.app = Append(@, request.op),
                   !.executed = Append(@, <<request.client_id, request.seq>>),
                   !.replies = Put(@, request.client_id, reply),
                   !.out = @ \cup {<<request.client_addr, reply>>}]

\* model::State::new and push_client for num_client clients; clients[k] is
\* the client of index k - 1; status is "running" until State::send returns
\* an error
State_new(num_client) ==
    [clients |-> [k \in 1 .. num_client |-> ClientState_new(k - 1)],
     server |-> ServerState_new, network |-> {}, status |-> "running"]

\* what the handlers of a step sent joins the network, and an error of a
\* handler is the error of the step
Collect(state) ==
    [clients |-> [k \in DOMAIN state.clients |-> [state.clients[k] EXCEPT !.out = {}]],
     server |-> [state.server EXCEPT !.out = {}],
     network |-> state.network \cup state.server.out
                    \cup UNION {state.clients[k].out : k \in DOMAIN state.clients},
     status |-> IF \E k \in DOMAIN state.clients : state.clients[k].status # "running"
                THEN "failed" ELSE state.status]

\* model::State::fix: every client whose close loop holds an Invoke handles
\* it
State_fix(state) ==
    Collect([state EXCEPT !.clients =
        [k \in DOMAIN state.clients |->
            IF IsSome(state.clients[k].upcall.sender)
            THEN ClientState_on_invoke(
                    [state.clients[k] EXCEPT !.upcall.sender = <<>>],
                    state.clients[k].upcall.sender[1])
            ELSE state.clients[k]]])

\* model::State::init
State_init(state) ==
    State_fix([state EXCEPT !.clients =
        [k \in DOMAIN state.clients |->
            [state.clients[k] EXCEPT !.upcall = CloseLoop_next(@, k - 1)]]])

\* model::State::send of Event::Message(addr, message)
State_send_message(state, addr, message) ==
    IF addr = AddrServer
    THEN IF message.type = "Request"
         THEN State_fix([state EXCEPT !.server = ServerState_on_request(@, message)])
         ELSE [state EXCEPT !.status = "failed"]
    ELSE IF addr[2] + 1 \notin DOMAIN state.clients \/ message.type # "Reply"
    THEN [state EXCEPT !.status = "failed"]
    ELSE State_fix([state EXCEPT !.clients[addr[2] + 1] =
                        ClientState_on_reply(@, message)])

\* model::State::send of Event::Timer(index, id, Timer::ClientResend)
State_send_timer(state, index, id) ==
    IF index + 1 \notin DOMAIN state.clients
       \/ ~Schedule_has(state.clients[index + 1].schedule, id)
    THEN [state EXCEPT !.status = "failed"]
    ELSE State_fix([state EXCEPT !.clients[index + 1] =
            ClientState_on_resend([@ EXCEPT !.schedule = Schedule_tick(@, id)])])

(***************************************************************************)
(* breadth_first of src/src/model/search.rs, searching the model::State of *)
(* the unreplicated protocol                                               *)
(***************************************************************************)

\* model::Event
EventMessage(addr, message) == [type |-> "Message", addr |-> addr, message |-> message]

EventTimer(index, id) == [type |-> "Timer", index |-> index, id |-> id]

\* the derived Ord of (Addr, Message), by which the BTreeSet of the Network
\* iterates: Addr::Client(index) before Addr::Server, then the seq
MessageRank(n) ==
    IF n[1] = AddrServer THEN <<1, 0, n[2].seq>> ELSE <<0, n[1][2], n[2].seq>>

RankLess(a, b) ==
    \/ a[1] < b[1]
    \/ a[1] = b[1] /\ a[2] < b[2]
    \/ a[1] = b[1] /\ a[2] = b[2] /\ a[3] < b[3]

\* Network::events: the messages in the order of the BTreeSet
RECURSIVE Network_events(_)
Network_events(messages) ==
    IF messages = {} THEN <<>>
    ELSE LET first == CHOOSE n \in messages :
                        \A o \in messages \ {n} : RankLess(MessageRank(n), MessageRank(o))
         IN  <<EventMessage(first[1], first[2])>> \o Network_events(messages \ {first})

\* the timers of the clients from index k - 1 on, as model::State::events
\* chains them
RECURSIVE TimerEvents(_, _)
TimerEvents(clients, k) ==
    IF k > Len(clients) THEN <<>>
    ELSE [j \in 1 .. Len(Schedule_events(clients[k].schedule)) |->
            EventTimer(k - 1, Schedule_events(clients[k].schedule)[j].id)]
         \o TimerEvents(clients, k + 1)

\* model::State::events
State_events(state) == Network_events(state.network) \o TimerEvents(state.clients, 1)

\* model::State::send
State_send(state, event) ==
    IF event.type = "Message"
    THEN State_send_message(state, event.addr, event.message)
    ELSE State_send_timer(state, event.index, event.id)

\* what the derived PartialEq, Eq and Hash of model::State compare: the
\* upcall of every client is skipped
StateKey(state) ==
    [clients |-> [k \in DOMAIN state.clients |->
                    [id |-> state.clients[k].id, addr |-> state.clients[k].addr,
                     seq |-> state.clients[k].seq,
                     outstanding |-> state.clients[k].outstanding,
                     schedule |-> state.clients[k].schedule]],
     server |-> [replies |-> state.server.replies, app |-> state.server.app],
     network |-> state.network]

\* the closures a caller hands over in Settings, by name: the invariant
\* returns Ok (TRUE) or Err (FALSE)
invariant(settings, state) ==
    CASE settings.invariant = "always" -> TRUE
      [] settings.invariant = "never" -> FALSE
      [] settings.invariant = "one_op" -> Len(state.server.app) <= 1

goal(settings, state) ==
    CASE settings.goal = "none" -> FALSE
      [] settings.goal = "second_invoke" ->
            \E k \in DOMAIN state.clients : state.clients[k].seq >= 2

prune(settings, state) ==
    CASE settings.prune = "none" -> FALSE
      [] settings.prune = "executed" -> state.server.app # <<>>

\* Settings; max_depth 0 stands for None
Settings(invariant_name, goal_name, prune_name, max_depth) ==
    [invariant |-> invariant_name, goal |-> goal_name, prune |-> prune_name,
     max_depth |-> max_depth]

\* the locals of breath_first_worker: pc is the place of the worker in its
\* code ("pop" at the while let of line 376, "event" in the for loop of
\* line 379, "wait" in depth_barrier.wait(), "after" past the barrier,
\* "exit" when the function has returned), queue the index of the queue it
\* pops from, the other being its pushing_queue
Worker_new ==
    [pc |-> "pop", local_depth |-> 0, queue |-> 1, state |-> <<>>, events |-> <<>>,
     leader |-> FALSE]

\* StateInfo, with the state it is the value of
StateInfo(state, prev, depth) ==
    [state |-> state, key |-> StateKey(state), prev |-> prev, depth |-> depth]

\* breadth_first up to the spawn of the workers: the initial state is in
\* the queue and in discovered; result is the Option of search_finished.0,
\* finished the AtomicBool of search_finished.2, waiting the workers blocked
\* in the barrier, returned what breadth_first returns
breadth_first(initial_state, settings, num_worker) ==
    [initial_state |-> initial_state,
     settings |-> settings,
     discovered |-> {StateInfo(initial_state, <<>>, 0)},
     queues |-> <<<<initial_state>>, <<>>>>,
     depth |-> 0,
     waiting |-> {},
     finished |-> FALSE,
     result |-> <<>>,
     worker |-> [w \in 1 .. num_worker |-> Worker_new],
     returned |-> <<>>]

\* discovered.get(&state)
Discovered_get(discovered, state) ==
    {info \in discovered : info.key = StateKey(state)}

\* an insertion that replaces the StateInfo of a state already discovered
insert_replacing(discovered, info) ==
    {other \in discovered : other.key # info.key} \cup {info}

\* discovered.entry(state).or_insert_with(..): nothing is inserted for a
\* state that is already discovered
or_insert_with(discovered, info) ==
    IF \E other \in discovered : other.key = info.key THEN discovered
    ELSE discovered \cup {info}

\* trace; the unwrap of discovered.get panics for a state that is not in the
\* map, which no caller passes
RECURSIVE trace(_, _)
trace(discovered, target) ==
    LET info == CHOOSE info \in Discovered_get(discovered, target) : TRUE
    IN  IF info.prev = <<>> THEN <<>>
        ELSE Append(trace(discovered, info.prev[2]), <<info.prev[1], target>>)

\* the closure search_finish: the first result is kept
search_finish(s, result) ==
    [s EXCEPT !.result = IF @ = <<>> THEN <<result>> ELSE @,
              !.finished = TRUE]

\* Barrier::wait of worker w: the worker that completes the group releases
\* every waiting worker and is the leader
depth_barrier_wait(s, w) ==
    IF Cardinality(s.waiting \cup {w}) = Len(s.worker)
    THEN [s EXCEPT !.waiting = {},
                   !.worker = [v \in DOMAIN s.worker |->
                        IF v \in s.waiting \cup {w}
                        THEN [s.worker[v] EXCEPT !.pc = "after", !.leader = (v = w),
                                                 !.state = <<>>, !.events = <<>>]
                        ELSE s.worker[v]]]
    ELSE [s EXCEPT !.waiting = @ \cup {w},
                   !.worker[w] = [@ EXCEPT !.pc = "wait", !.state = <<>>, !.events = <<>>]]

\* the while let of line 376: queue.pop(), and the events of the state
worker_pop(s, w) ==
    LET queue == s.queues[s.worker[w].queue]
    IN  IF queue = <<>> THEN depth_barrier_wait(s, w)
        ELSE [s EXCEPT !.queues[s.worker[w].queue] = Tail(queue),
                       !.worker[w].state = <<Head(queue)>>,
                       !.worker[w].events = State_events(Head(queue)),
                       !.worker[w].pc = "event"]

\* one pass of the for loop of lines 379-419 and, after the last event, the
\* test of lines 420-422
worker_event(s, w) ==
    LET me == s.worker[w]
        state == me.state[1]
    IN  IF me.events = <<>>
        THEN IF s.finished THEN depth_barrier_wait(s, w)
             ELSE [s EXCEPT !.worker[w].pc = "pop", !.worker[w].state = <<>>]
        ELSE
        LET event == Head(me.events)
            next_state == State_send(state, event)
            s1 == [s EXCEPT !.worker[w].events = Tail(@)]
            inserted == Discovered_get(s.discovered, next_state) = {}
            s2 == [s1 EXCEPT !.discovered =
                        or_insert_with(@, StateInfo(next_state, <<event, state>>,
                                                    me.local_depth + 1))]
        IN  IF next_state.status # "running"
            THEN depth_barrier_wait(
                    search_finish(s1, [type |-> "Error", state |-> state, event |-> event]),
                    w)
            ELSE IF ~inserted THEN s2
            ELSE IF ~invariant(s.settings, next_state)
            THEN depth_barrier_wait(
                    search_finish(s2, [type |-> "InvariantViolation", state |-> next_state]),
                    w)
            ELSE IF goal(s.settings, next_state)
            THEN depth_barrier_wait(
                    search_finish(s2, [type |-> "GoalFound", state |-> next_state]),
                    w)
            ELSE IF me.local_depth + 1 # s.settings.max_depth
                    /\ ~prune(s.settings, next_state)
            THEN [s2 EXCEPT !.queues[3 - me.queue] = Append(@, next_state)]
            ELSE s2

\* lines 431-449, after the barrier; the assert_ne of line 446 panics the
\* worker
worker_after(s, w) ==
    LET me == s.worker[w]
        s1 == IF me.leader THEN [s EXCEPT !.depth = me.local_depth + 1] ELSE s
    IN  IF s.finished THEN [s EXCEPT !.worker[w].pc = "exit"]
        ELSE IF s.queues[3 - me.queue] = <<>>
        THEN [search_finish(s1, [type |-> "SpaceExhausted"]) EXCEPT !.worker[w].pc = "exit"]
        ELSE IF me.local_depth + 1 = s.settings.max_depth
        THEN [s1 EXCEPT !.worker[w].pc = "panicked"]
        ELSE [s1 EXCEPT !.worker[w].queue = 3 - me.queue,
                        !.worker[w].local_depth = me.local_depth + 1,
                        !.worker[w].leader = FALSE,
                        !.worker[w].pc = "pop"]

\* a result whose trace ends at the predecessor of the reported state
search_result_from_prev(s) ==
    LET result == s.result[1]
        info == CHOOSE info \in Discovered_get(s.discovered, result.state) : TRUE
        short == IF info.prev = <<>> THEN <<>> ELSE trace(s.discovered, info.prev[2])
    IN  [type |-> IF result.type = "Error" THEN "Err" ELSE result.type,
         trace |-> IF result.type \in {"Error", "InvariantViolation"} THEN short ELSE <<>>,
         event |-> IF result.type = "Error" THEN <<result.event>> ELSE <<>>,
         state |-> IF result.type = "SpaceExhausted" THEN <<>> ELSE <<result.state>>]

\* breadth_first after search_internal has joined the workers: the
\* SearchResult made of the result of the workers
search_result(s) ==
    LET result == s.result[1]
    IN  CASE result.type = "Error" ->
                [type |-> "Err", trace |-> trace(s.discovered, result.state),
                 event |-> <<result.event>>, state |-> <<result.state>>]
          [] result.type = "InvariantViolation" ->
                [type |-> "InvariantViolation",
                 trace |-> trace(s.discovered, result.state),
                 event |-> <<>>, state |-> <<result.state>>]
          [] result.type = "GoalFound" ->
                [type |-> "GoalFound", trace |-> <<>>, event |-> <<>>,
                 state |-> <<result.state>>]
          [] result.type = "SpaceExhausted" ->
                [type |-> "SpaceExhausted", trace |-> <<>>, event |-> <<>>,
                 state |-> <<>>]

\* random_depth_first up to the spawn of the workers; pc is the place of a
\* worker in random_depth_first_worker ("probe" at the while of line 473,
\* "step" in the for loop of line 478, "exit" when the function has
\* returned), state, trace and depth are its locals.  The counters
\* num_probe and num_state, which only feed the status line, are left out.
random_depth_first(initial_state, settings, num_worker) ==
    [initial_state |-> initial_state,
     settings |-> settings,
     finished |-> FALSE,
     result |-> <<>>,
     worker |-> [w \in 1 .. num_worker |->
                    [pc |-> "probe", state |-> initial_state, trace |-> <<>>,
                     depth |-> 0]]]

\* the test of the while of line 473 and the start of a probe
probe_start(s, w) ==
    IF s.finished THEN [s EXCEPT !.worker[w].pc = "exit"]
    ELSE [s EXCEPT !.worker[w] = [pc |-> "step", state |-> s.initial_state,
                                  trace |-> <<>>, depth |-> 0]]

\* a pass of the for loop of lines 478-504 in which events() yields nothing
probe_no_event(s, w) == [s EXCEPT !.worker[w].pc = "probe"]

\* a pass of the for loop of lines 478-504 in which choose yields event
probe_step(s, w, event) ==
    LET me == s.worker[w]
        state == State_send(me.state, event)
        trace_ == Append(me.trace, <<event, state>>)
        s1 == [s EXCEPT !.worker[w].pc = "probe"]
        s2 == [s1 EXCEPT !.worker[w].state = state, !.worker[w].trace = trace_]
    IN  IF state.status # "running"
        THEN search_finish(s1, [type |-> "Err", trace |-> me.trace, event |-> <<event>>,
                                state |-> <<>>])
        ELSE IF ~invariant(s.settings, state)
        THEN search_finish(s2, [type |-> "InvariantViolation", trace |-> trace_,
                                event |-> <<>>, state |-> <<>>])
        ELSE IF goal(s.settings, state)
        THEN search_finish(s2, [type |-> "GoalFound", trace |-> <<>>, event |-> <<>>,
                                state |-> <<state>>])
        ELSE IF \/ prune(s.settings, state)
                \/ me.depth + 1 = s.settings.max_depth
                \/ s.finished
        THEN s2
        ELSE [s2 EXCEPT !.worker[w].pc = "step", !.worker[w].depth = me.depth + 1]

\* no search is running
NoSearch == <<>>

(***************************************************************************)
(* The system: one client, NumReplica replicas, the network                *)
(***************************************************************************)

VARIABLES
    replica,    \* replica[i]: the state of replica i
    client,     \* the state of the client and of its Session
    network,    \* the set of (address, message) pairs sent so far
    faulty,     \* the ids of the replicas that do not follow the protocol
    inline,     \* the ids of the replicas whose crypto work runs inline
    delivered,  \* history: the replies handed to the client so far
    unreplicated,   \* the model::State of the unreplicated protocol
    schedule,   \* a Schedule of the search model on its own
    search      \* breadth_first and its workers

vars ==
    <<replica, client, network, faulty, inline, delivered, unreplicated, schedule,
      search>>

\* the ops a client invokes
Ops == {"x"}

\* the number of invocations a Session accepts from the caller of the client
MaxInvoke == 2

\* the batch of the client's request, and a batch a faulty primary makes up
BatchX == <<Request(1, "x")>>

BatchY == <<Request(1, "y")>>

\* a faulty replica f signs for a batch of its choice: a pre-prepare, a
\* prepare and a commit
FaultyPrePrepare(f, batch) ==
    ToReplicaPrePrepare(sign(f, PrePrepare(0, 1, sha256(batch))), batch)

FaultyVotes(f, batch) ==
    {sign(f, Prepare(0, 1, sha256(batch), f)), sign(f, Commit(0, 1, sha256(batch), f))}

\* the backlog bounds of the model: an event from the network is handled
\* only while the replica's worker has room
HasRoom(i) == Len(replica[i].crypto_worker) < MaxWork

PendingRoom(s) ==
    /\ \A k \in DOMAIN s.on_verified_prepare : Len(s.on_verified_prepare[k]) <= MaxPending
    /\ \A k \in DOMAIN s.on_verified_commit : Len(s.on_verified_commit[k]) <= MaxPending

\* a handler has run on replica i and left it in state s: what it sent
\* joins the network
ReplicaStep(i, s) ==
    /\ replica' = [replica EXCEPT ![i] = [s EXCEPT !.out = {}]]
    /\ network' = network \cup s.out
    /\ UNCHANGED <<unreplicated, schedule, search>>

ClientStep(c) ==
    /\ client' = [c EXCEPT !.out = {}]
    /\ network' = network \cup c.out
    /\ UNCHANGED <<unreplicated, schedule, search>>

Correct(i) == i \in ReplicaIds \ faulty

Running(i) == Correct(i) /\ replica[i].status = "running"

\* the workload invokes an op
Invoke(op) ==
    /\ client.status = "running"
    /\ client.seq < MaxOp
    /\ ClientStep(on_invoke(client, op))
    /\ UNCHANGED <<replica, faulty, inline, delivered>>

\* the task spawned by SessionTimer::set_internal wakes up and sends its
\* SessionEvent::Timer; the abort of SessionTimer::unset may come too late
\* to stop it
TimerExpire(timer_id) ==
    /\ client.status = "running"
    /\ timer_id \in client.tasks
    /\ ClientStep([client EXCEPT !.tasks = @ \ {timer_id},
                                 !.channel = Append(@, timer_id)])
    /\ UNCHANGED <<replica, faulty, inline, delivered>>

\* Session::run for a received SessionEvent::Timer, handing the event to the
\* handler whether or not the timer is still in the table
session_timer_unchecked(c) ==
    on_resend_timeout([c EXCEPT !.channel = Tail(@),
                                !.timers = @ \ {Head(c.channel)},
                                !.handled = Append(@, Head(c.channel))])

\* Session::run for a received SessionEvent::Timer: a timer still in the
\* table leaves it and the event reaches the handler, the event of a timer
\* no longer in the table is skipped
session_timer(c) ==
    IF Head(c.channel) \in c.timers
    THEN on_resend_timeout([c EXCEPT !.channel = Tail(@),
                                     !.timers = @ \ {Head(c.channel)},
                                     !.handled = Append(@, Head(c.channel))])
    ELSE [c EXCEPT !.channel = Tail(@)]

\* Session::run receives the SessionEvent::Timer of the resend timer
ResendTimeout ==
    /\ client.status = "running"
    /\ client.channel # <<>>
    /\ ClientStep(session_timer(client))
    /\ UNCHANGED <<replica, faulty, inline, delivered>>

\* State::send of the search harness for Event::Timer of the client:
\* Schedule::tick keeps the timer, and the event reaches the handler
Tick ==
    /\ client.status = "running"
    /\ IsSome(client.invoke)
    /\ client.invoke[1].resend_timer \in client.timers
    /\ ClientStep(on_resend_timeout(client))
    /\ UNCHANGED <<replica, faulty, inline, delivered>>

\* the client handles a Reply
HandleReply(reply) ==
    /\ client.status = "running"
    /\ ClientStep(on_ingress(client, reply))
    /\ delivered' = delivered \cup {reply}
    /\ UNCHANGED <<replica, faulty, inline>>

\* a Reply of the network reaches the client
DeliverReply(m) == m[1] = ClientAddr /\ HandleReply(m[2])

\* the search harness runs the submitted crypto work inline, right after the
\* handler: it pops the job submitted last, runs it and hands the event it
\* sends to the replica, until no job is left
RECURSIVE fix_submit(_)
fix_submit(s) ==
    IF s.status # "running" \/ s.crypto_worker = <<>> THEN s
    ELSE fix_submit(OnWorkDone(
            [s EXCEPT !.crypto_worker = SubSeq(@, 1, Len(@) - 1)],
            s.crypto_worker[Len(s.crypto_worker)]))

\* after a handler of replica i: under the search harness fix_submit runs,
\* with the live worker the jobs wait for WorkDone
AfterHandler(i, s) == IF i \in inline THEN fix_submit(s) ELSE s

\* replica i handles message m from the network
Handle(i, m) ==
    /\ Running(i)
    /\ HasRoom(i)
    /\ LET s == AfterHandler(i, OnIngress(replica[i], m))
       IN  PendingRoom(s) /\ ReplicaStep(i, s)
    /\ UNCHANGED <<client, faulty, inline, delivered>>

\* a message of the network reaches replica i
Deliver(i, m) == m[1] = ReplicaAddr(i) /\ Handle(i, m[2])

\* a message of a faulty replica reaches replica i
FaultyDeliver(f, i, m) == f \in faulty /\ Handle(i, m)

\* the primary closes the batch of the requests it has queued
CloseBatch(i) ==
    /\ Running(i)
    /\ is_primary(replica[i])
    /\ replica[i].requests # <<>>
    /\ replica[i].op_num < MaxOp
    /\ ReplicaStep(i, AfterHandler(i, close_batch(replica[i])))
    /\ UNCHANGED <<client, faulty, inline, delivered>>

\* the crypto worker of replica i finishes its oldest job and the replica
\* handles the event the job sends back
WorkDone(i) ==
    /\ Running(i)
    /\ replica[i].crypto_worker # <<>>
    /\ ReplicaStep(i, OnWorkDone([replica[i] EXCEPT !.crypto_worker = Tail(@)],
                                 Head(replica[i].crypto_worker)))
    /\ UNCHANGED <<client, faulty, inline, delivered>>

\* a replica inside the while loop of insert_commit passes through it again
CommitLoopAgain(i) ==
    /\ Correct(i)
    /\ replica[i].status = "looping"
    /\ Len(replica[i].app) < MaxExec
    /\ ReplicaStep(i, CommitLoop(replica[i]))
    /\ UNCHANGED <<client, faulty, inline, delivered>>

(***************************************************************************)
(* Spec: the search harness, n = 4 and f = 1, every replica follows the    *)
(* protocol, one client                                                    *)
(***************************************************************************)

Init ==
    /\ replica = [i \in ReplicaIds |-> NewReplica(i)]
    /\ client = NewClient
    /\ network = {}
    /\ faulty = {}
    /\ inline = ReplicaIds
    /\ delivered = {}
    /\ unreplicated = State_new(0)
    /\ schedule = Schedule_new
    /\ search = NoSearch

Next ==
    \/ \E op \in Ops : Invoke(op)
    \/ Tick
    \/ \E m \in network : DeliverReply(m)
    \/ \E i \in ReplicaIds, m \in network : Deliver(i, m)
    \/ \E i \in ReplicaIds : CloseBatch(i)

Spec == Init /\ [][Next]_vars

(***************************************************************************)
(* SpecByz: the primary of view 0 is faulty and proposes BatchX to replica *)
(* Victim and BatchY to the others.  Victim runs the live asynchronous     *)
(* worker and is the slowest replica: it handles an event only when the    *)
(* others have nothing left to handle; the others finish their crypto work *)
(* before their next event.                                                *)
(***************************************************************************)

\* the primary of view 0
FaultyPrimary == 0 % NumReplica

\* the backup the faulty primary singles out
Victim == FaultyPrimary + 1

\* what the faulty primary sends to replica i
FaultySplit(i) ==
    LET batch == IF i = Victim THEN BatchX ELSE BatchY
    IN  {FaultyPrePrepare(FaultyPrimary, batch)} \cup FaultyVotes(FaultyPrimary, batch)

\* replica j has committed op_num
Committed(j, op_num) ==
    LogHas(replica[j], op_num) /\ LogAt(replica[j], op_num).commits # {}

MayAct(i) == i = Victim => \A j \in ReplicaIds \ {FaultyPrimary, Victim} : Committed(j, 1)

InitByz ==
    /\ replica = [i \in ReplicaIds |-> NewReplica(i)]
    /\ client = NewClient
    /\ network = {}
    /\ faulty = {FaultyPrimary}
    /\ inline = ReplicaIds \ {Victim}
    /\ delivered = {}
    /\ unreplicated = State_new(0)
    /\ schedule = Schedule_new
    /\ search = NoSearch

NextByz ==
    \/ \E i \in ReplicaIds : MayAct(i) /\ \E m \in network : Deliver(i, m)
    \/ \E i \in ReplicaIds :
            MayAct(i) /\ \E m \in FaultySplit(i) : FaultyDeliver(FaultyPrimary, i, m)
    \/ \E i \in ReplicaIds : WorkDone(i)

SpecByz == InitByz /\ [][NextByz]_vars

(***************************************************************************)
(* SpecReplica: one replica with the live asynchronous worker, either the  *)
(* primary or a backup, in an open environment: every other replica may    *)
(* send it what it can sign, in any order                                  *)
(***************************************************************************)

\* the open environment: every other replica votes for BatchX; the primary
\* of view 0 also proposes both batches and prepares BatchY; a replica
\* sends back the pre-prepares it was sent; the client's request reaches
\* the primary
OpenMessages(f, i) ==
    FaultyVotes(f, BatchX)
    \cup (IF f = 0 THEN {FaultyPrePrepare(f, BatchX), FaultyPrePrepare(f, BatchY)}
                        \cup {sign(f, Prepare(0, 1, sha256(BatchY), f))}
          ELSE {})
    \cup {n[2] : n \in {n \in network : n[1] = ReplicaAddr(f)
                                         /\ n[2].type = "PrePrepareRequests"}}
    \cup (IF i = 0 THEN {ToReplicaRequest(r) : r \in {BatchX[1]}} ELSE {})

InitReplica ==
    /\ replica = [i \in ReplicaIds |-> NewReplica(i)]
    /\ client = NewClient
    /\ network = {}
    /\ \E me \in {0, 1} : faulty = ReplicaIds \ {me}
    /\ inline = {}
    /\ delivered = {}
    /\ unreplicated = State_new(0)
    /\ schedule = Schedule_new
    /\ search = NoSearch

NextReplica ==
    \/ \E f \in ReplicaIds, i \in ReplicaIds :
            \E m \in OpenMessages(f, i) : FaultyDeliver(f, i, m)
    \/ \E i \in ReplicaIds : CloseBatch(i)
    \/ \E i \in ReplicaIds : WorkDone(i)
    \/ \E i \in ReplicaIds : CommitLoopAgain(i)

SpecReplica == InitReplica /\ [][NextReplica]_vars

(***************************************************************************)
(* SpecInline: one replica whose crypto work is drained inline by          *)
(* fix_submit, in an open environment that also sends messages of the next *)
(* view                                                                    *)
(***************************************************************************)

\* the view after the one every replica starts in
HigherView == NewReplica(0).view_num + 1

\* the messages of view view_num that the faulty replica f signs
ViewMessages(f, view_num) ==
    {sign(f, Prepare(view_num, 1, sha256(BatchX), f)),
     sign(f, Commit(view_num, 1, sha256(BatchX), f)),
     ToReplicaPrePrepare(sign(f, PrePrepare(view_num, 1, sha256(BatchX))), BatchX)}

\* what the open environment sends in the name of f: the votes of f for the
\* batch, the pre-prepare of the primary, and the messages of the next view
OpenInline(f) ==
    FaultyVotes(f, BatchX)
    \cup (IF f = 0 THEN {FaultyPrePrepare(f, BatchX)} ELSE {})
    \cup ViewMessages(f, HigherView)

InitInline ==
    /\ replica = [i \in ReplicaIds |-> NewReplica(i)]
    /\ client = NewClient
    /\ network = {}
    /\ faulty = ReplicaIds \ {Victim}
    /\ inline = {Victim}
    /\ delivered = {}
    /\ unreplicated = State_new(0)
    /\ schedule = Schedule_new
    /\ search = NoSearch

NextInline ==
    \/ \E f \in ReplicaIds, i \in ReplicaIds :
            \E m \in OpenInline(f) : FaultyDeliver(f, i, m)
    \/ \E i \in ReplicaIds : CommitLoopAgain(i)

SpecInline == InitInline /\ [][NextInline]_vars

\* C19: a step in which a replica handles a PrePrepare, Prepare or Commit of
\* another view than its own leaves the replica as it was: its log, its
\* quorums and its being running
C19_ViewMismatch ==
    [][\A f \in ReplicaIds, i \in ReplicaIds :
        \A m \in ViewMessages(f, HigherView) :
            (/\ Running(i)
             /\ replica[i].view_num # HigherView
             /\ replica'[i] = [AfterHandler(i, OnIngress(replica[i], m))
                                    EXCEPT !.out = {}])
                => /\ replica'[i].status = "running"
                   /\ replica'[i].log = replica[i].log
                   /\ replica'[i].prepare_quorums = replica[i].prepare_quorums
                   /\ replica'[i].commit_quorums = replica[i].commit_quorums]_vars

\* C20: a replica handles the SignedPrepare of an op_num before the
\* SignedCommit of that op_num, as their signing was submitted
C20_FifoResults ==
    \A i \in ReplicaIds :
        \A j, k \in DOMAIN replica[i].signed :
            (/\ replica[i].signed[j][1] = "SignedPrepare"
             /\ replica[i].signed[k][1] = "SignedCommit"
             /\ replica[i].signed[j][2] = replica[i].signed[k][2])
                => j < k

(***************************************************************************)
(* SpecClient: the client run by a Session, in an open environment: any    *)
(* replica id may reply anything, in any order, and the resend timer may   *)
(* fire                                                                    *)
(***************************************************************************)

\* the replies of the open environment: the client's seq and the next one,
\* two results, every replica id
OpenReplies ==
    {Reply(seq, AppResult(op), 0, i) :
        seq \in 1 .. (MaxOp + 1), op \in {"x", "y"}, i \in ReplicaIds}

InitClient ==
    /\ replica = [i \in ReplicaIds |-> NewReplica(i)]
    /\ client = NewClient
    /\ network = {}
    /\ faulty = ReplicaIds
    /\ inline = {}
    /\ delivered = {}
    /\ unreplicated = State_new(0)
    /\ schedule = Schedule_new
    /\ search = NoSearch

\* Session::run receives an Invoke from the caller of the client, whether
\* or not an invocation is outstanding; the caller starts MaxInvoke
\* invocations at most
SessionInvoke(op) ==
    /\ client.status = "running"
    /\ client.seq < MaxInvoke \/ IsSome(client.invoke)
    /\ ClientStep(on_invoke(client, op))
    /\ UNCHANGED <<replica, faulty, inline, delivered>>

NextClient ==
    \/ \E op \in Ops : SessionInvoke(op)
    \/ \E timer_id \in 1 .. MaxInvoke : TimerExpire(timer_id)
    \/ ResendTimeout
    \/ \E reply \in OpenReplies :
            /\ Cardinality(delivered \cup {reply}) <= MaxReplies
            /\ HandleReply(reply)

SpecClient == InitClient /\ [][NextClient]_vars

(***************************************************************************)
(* Properties of the client, checked under SpecClient                      *)
(***************************************************************************)

\* the replica ids whose replies for seq with result were handed to the
\* client
Repliers(seq, result) ==
    {r.replica_id : r \in {r \in delivered : r.seq = seq /\ r.result = result}}

\* C3: whenever the client has upcalled result r for its invocation seq, at
\* least f + 1 distinct replica ids have each replied r for seq: replies for
\* another seq, with another result or repeated by one id do not count
C3_ClientSafety ==
    \A k \in DOMAIN client.upcalls :
        Cardinality(Repliers(client.upcalls[k].seq, client.upcalls[k].result))
            >= NumFaulty + 1

\* the client has upcalled after it was also handed a reply for another
\* seq and a reply for its seq with another result
C3_Witness ==
    \E k \in DOMAIN client.upcalls : \E r1, r2 \in delivered :
        /\ r1.seq # client.upcalls[k].seq
        /\ r2.seq = client.upcalls[k].seq
        /\ r2.result # client.upcalls[k].result

\* the elements of a sequence
Range(seq) == {seq[k] : k \in DOMAIN seq}

\* C11: while an invocation is outstanding its resend_timer is in the timer
\* table of the Session, also after ResendTimeout was handled, and the table
\* is empty when no invocation is outstanding
C11_TimerLiveness ==
    IF IsSome(client.invoke)
    THEN client.timers = {client.invoke[1].resend_timer}
    ELSE client.timers = {}

\* C13: an Invoke handled while an invocation is outstanding returns an
\* error and changes nothing else; a step changes seq only by adding 1, and
\* only when it makes an invocation outstanding where there was none and
\* every request sent before has a lower or equal seq; a request sent by a
\* step carries the seq the client has after the step
C13_OneOutstanding ==
    [][/\ \A op \in Ops :
            IsSome(client.invoke)
                => on_invoke(client, op) = [client EXCEPT !.status = "failed"]
       /\ client'.seq \in {client.seq, client.seq + 1}
       /\ client'.seq = client.seq + 1
            => /\ ~IsSome(client.invoke)
               /\ IsSome(client'.invoke)
               /\ \A n \in network : n[2].request.seq <= client.seq
       /\ \A n \in network' \ network : n[2].request.seq = client'.seq]_vars

\* an Invoke was refused while the second invocation was outstanding
C13_Witness ==
    /\ client.status = "failed"
    /\ IsSome(client.invoke)
    /\ client.seq = MaxInvoke

\* C14: once the ResendTimeout of the outstanding invocation was handled,
\* the Request of the invocation has been sent to every replica
C14_ResendBroadcast ==
    (/\ IsSome(client.invoke)
     /\ client.invoke[1].resend_timer \in Range(client.handled))
        => \A i \in ReplicaIds :
                <<ReplicaAddr(i),
                  ToReplicaRequest(Request(client.seq, client.invoke[1].op))>>
                    \in network

\* C18: a received timer event whose timer is no longer in the table is
\* dropped, changing nothing but the queue and sending nothing, and no
\* timer id reaches the handler twice
C18_DeliveryAfterUnset ==
    [][/\ (/\ client.channel # <<>>
           /\ client'.channel = Tail(client.channel)
           /\ Head(client.channel) \notin client.timers)
            => /\ client' = [client EXCEPT !.channel = Tail(@)]
               /\ network' = network
       /\ \A j, k \in DOMAIN client'.handled :
            client'.handled[j] = client'.handled[k] => j = k]_vars

\* a timer was set, its event was sent and received, and it never reached
\* the handler: the event was dropped
C18_Witness ==
    \E t \in 1 .. client.timer_id :
        /\ t \notin client.tasks
        /\ t \notin Range(client.channel)
        /\ t \notin Range(client.handled)
        /\ client.status = "running"

(***************************************************************************)
(* Properties of one replica, checked under SpecReplica                    *)
(***************************************************************************)

\* the entry of op_num at replica i, DefaultEntry while the log is shorter
Entry(i, op_num) ==
    IF LogHas(replica[i], op_num) THEN LogAt(replica[i], op_num) ELSE DefaultEntry

\* the replica ids behind a set of votes
Voters(votes) == {m.replica_id : m \in votes}

Quorum == NumReplica - NumFaulty

\* C8: once log[op_num].pre_prepare is set at a replica, no step changes the
\* pre_prepare, the view_num or the requests of that entry
C8_PrePrepareNeverOverwritten ==
    [][\A i \in ReplicaIds \ faulty : \A op_num \in OpNums :
            IsSome(Entry(i, op_num).pre_prepare) =>
                /\ Entry(i, op_num).pre_prepare' = Entry(i, op_num).pre_prepare
                /\ Entry(i, op_num).view_num' = Entry(i, op_num).view_num
                /\ Entry(i, op_num).requests' = Entry(i, op_num).requests]_vars

\* a replica that holds the pre-prepare of one batch is about to handle the
\* verified pre-prepare of the other batch for the same op_num
C8_Witness ==
    \E i \in ReplicaIds \ faulty :
        /\ replica[i].status = "running"
        /\ IsSome(Entry(i, 1).pre_prepare)
        /\ replica[i].crypto_worker # <<>>
        /\ LET job == Head(replica[i].crypto_worker)
           IN  /\ job.kind = "VerifyPrePrepare"
               /\ job.message.op_num = 1
               /\ job.message.digest = sha256(job.requests)
               /\ verify(job.replica_id, job.message)
               /\ job.message.digest # Entry(i, 1).pre_prepare[1].digest

\* C9: at every replica log[op_num].prepares is empty or holds the prepares
\* of at least Q = n - f distinct replica ids, one per id, and once it is
\* non-empty no step changes it
C9_PreparesFrozenAtQuorum ==
    [][\A i \in ReplicaIds \ faulty : \A op_num \in OpNums :
            /\ Entry(i, op_num).prepares' # {} =>
                    /\ Cardinality(Voters(Entry(i, op_num).prepares')) >= Quorum
                    /\ Cardinality(Voters(Entry(i, op_num).prepares'))
                            = Cardinality(Entry(i, op_num).prepares')
            /\ Entry(i, op_num).prepares # {} =>
                    Entry(i, op_num).prepares' = Entry(i, op_num).prepares]_vars

\* a replica whose prepares are frozen still has a prepare to verify and
\* to handle
C9_Witness ==
    \E i \in ReplicaIds \ faulty :
        /\ replica[i].status = "running"
        /\ Entry(i, 1).prepares # {}
        /\ \E k \in DOMAIN replica[i].crypto_worker :
                replica[i].crypto_worker[k].kind = "VerifyPrepare"

\* C10: at every replica log[op_num].commits is empty or holds the commits
\* of at least Q = n - f distinct replica ids, one per id, in an entry whose
\* prepares are non-empty, and once it is non-empty no step changes it
C10_CommitsFrozenAtQuorum ==
    [][\A i \in ReplicaIds \ faulty : \A op_num \in OpNums :
            /\ Entry(i, op_num).commits' # {} =>
                    /\ Cardinality(Voters(Entry(i, op_num).commits')) >= Quorum
                    /\ Cardinality(Voters(Entry(i, op_num).commits'))
                            = Cardinality(Entry(i, op_num).commits')
                    /\ Entry(i, op_num).prepares' # {}
            /\ Entry(i, op_num).commits # {} =>
                    Entry(i, op_num).commits' = Entry(i, op_num).commits]_vars

\* a replica whose commits are frozen has gone on, through the loop of
\* insert_commit once more
C10_Witness ==
    \E i \in ReplicaIds \ faulty :
        /\ Entry(i, 1).commits # {}
        /\ Len(replica[i].app) > Len(Entry(i, 1).requests)

\* the ops of the requests of the entries 1 .. k of replica i, in op_num
\* order
RECURSIVE OpsUpTo(_, _)
OpsUpTo(i, k) ==
    IF k = 0 THEN <<>>
    ELSE OpsUpTo(i, k - 1)
            \o [n \in 1 .. Len(Entry(i, k).requests) |-> Entry(i, k).requests[n].op]

\* C4: a replica whose entries 1 .. k are all committed has executed each
\* request of these entries exactly once, in op_num order, and has moved
\* commit_num past them
C4_CommitExecution ==
    \A i \in ReplicaIds \ faulty : \A k \in OpNums :
        (\A j \in 1 .. k : Entry(i, j).commits # {}) =>
            /\ replica[i].app = OpsUpTo(i, k)
            /\ replica[i].commit_num >= k

(***************************************************************************)
(* Properties of the system with a faulty primary, checked under SpecByz   *)
(***************************************************************************)

\* C1: any two correct replicas that have both committed op_num hold the
\* same view_num, pre-prepare digest and requests in that entry
C1_Agreement ==
    \A i, j \in ReplicaIds \ faulty : \A op_num \in OpNums :
        (Entry(i, op_num).commits # {} /\ Entry(j, op_num).commits # {}) =>
            /\ Entry(i, op_num).view_num = Entry(j, op_num).view_num
            /\ Entry(i, op_num).pre_prepare = Entry(j, op_num).pre_prepare
            /\ Entry(i, op_num).requests = Entry(j, op_num).requests

\* C2: any two correct replicas that have both frozen the prepares of
\* op_num in the same view hold pre-prepares of the same digest
C2_NoEquivocation ==
    \A i, j \in ReplicaIds \ faulty : \A op_num \in OpNums :
        (/\ Entry(i, op_num).prepares # {}
         /\ Entry(j, op_num).prepares # {}
         /\ Entry(i, op_num).view_num = Entry(j, op_num).view_num
         /\ IsSome(Entry(i, op_num).pre_prepare)
         /\ IsSome(Entry(j, op_num).pre_prepare)) =>
            Entry(i, op_num).pre_prepare[1].digest = Entry(j, op_num).pre_prepare[1].digest

(***************************************************************************)
(* Properties of the system of four correct replicas and one client,       *)
(* checked under Spec                                                      *)
(***************************************************************************)

\* C6: once all four replicas have committed the client's request and the
\* client has upcalled, commit_num >= 1 at all four replicas
C6_EndToEnd ==
    (/\ \A i \in ReplicaIds : Entry(i, 1).commits # {}
     /\ client.upcalls # <<>>)
        => \A i \in ReplicaIds : replica[i].commit_num >= 1

\* the backup whose messages are never delivered
Isolated == NumReplica - 1

\* a step of the system that delivers nothing to Isolated
NextIsolated ==
    \/ \E op \in Ops : Invoke(op)
    \/ \E m \in network : DeliverReply(m)
    \/ \E i \in ReplicaIds \ {Isolated}, m \in network : Deliver(i, m)
    \/ \E i \in ReplicaIds \ {Isolated} : CloseBatch(i)

\* C7: when nothing was ever delivered to Isolated, so that it has sent
\* nothing either, and the others and the client have handled all there is
\* to handle, the other three replicas have committed the client's request
\* and the client has upcalled
C7_FaultTolerance ==
    (/\ replica[Isolated] = NewReplica(Isolated)
     /\ ~ENABLED <<NextIsolated>>_vars)
        => /\ \A i \in ReplicaIds \ {Isolated} : Entry(i, 1).commits # {}
           /\ client.upcalls # <<>>

(***************************************************************************)
(* SpecSchedule: a Schedule whose timers are set, unset and ticked in any  *)
(* order                                                                   *)
(***************************************************************************)

\* the PBFT system at rest
InitIdle ==
    /\ replica = [i \in ReplicaIds |-> NewReplica(i)]
    /\ client = NewClient
    /\ network = {}
    /\ faulty = ReplicaIds
    /\ inline = {}
    /\ delivered = {}

\* the number of timers set on the Schedule
MaxTimers == 4

\* the periods the timers are set with
Periods == {ResendPeriod, ResendPeriod + ResendPeriod}

InitSchedule ==
    /\ InitIdle
    /\ unreplicated = State_new(0)
    /\ schedule = Schedule_new
    /\ search = NoSearch

ScheduleSet(period) ==
    /\ schedule.count < MaxTimers
    /\ schedule' = Schedule_set(schedule, period, "ClientResend")
    /\ UNCHANGED <<replica, client, network, faulty, inline, delivered, unreplicated, search>>

ScheduleUnset(id) ==
    /\ Schedule_has(schedule, id)
    /\ schedule' = Schedule_remove(schedule, id)
    /\ UNCHANGED <<replica, client, network, faulty, inline, delivered, unreplicated, search>>

\* the search model ticks a timer that Schedule::events yields
ScheduleTick(id) ==
    /\ \E k \in DOMAIN Schedule_events(schedule) : Schedule_events(schedule)[k].id = id
    /\ schedule' = Schedule_tick(schedule, id)
    /\ UNCHANGED <<replica, client, network, faulty, inline, delivered, unreplicated, search>>

NextSchedule ==
    \/ \E period \in Periods : ScheduleSet(period)
    \/ \E id \in 1 .. MaxTimers : ScheduleUnset(id)
    \/ \E id \in 1 .. MaxTimers : ScheduleTick(id)

SpecSchedule == InitSchedule /\ [][NextSchedule]_vars

\* C17: Schedule::events yields the timers of the shortest period of the
\* schedule, all of them and no other
C17_ShortestPeriod ==
    {envelop.id : envelop \in Range(Schedule_events(schedule))}
        = {envelop.id : envelop \in
            {e1 \in Range(schedule.envelops) :
                \A e2 \in Range(schedule.envelops) : e1.period <= e2.period}}

\* C29: Schedule::events yields a prefix of the envelops, in their order,
\* with the first envelop in it; the periods of the yielded envelops strictly
\* decrease, and the envelop after the last yielded one, if there is one,
\* has a period that is not below the period of the last yielded one
C29_DecreasingPrefix ==
    LET envelops == schedule.envelops
        yielded == Schedule_events(schedule)
        k == Len(yielded)
    IN  /\ k <= Len(envelops)
        /\ yielded = SubSeq(envelops, 1, k)
        /\ envelops # <<>> => k >= 1
        /\ \A j \in 2 .. k : envelops[j].period < envelops[j - 1].period
        /\ k < Len(envelops) /\ k >= 1 => envelops[k + 1].period >= envelops[k].period

\* on a full schedule reordered by a tick or an unset, events() yields two
\* envelops and stops before a third whose period equals that of the second
C29_Witness ==
    /\ Len(schedule.envelops) = MaxTimers
    /\ Len(Schedule_events(schedule)) = 2
    /\ schedule.envelops[3].period = schedule.envelops[2].period
    /\ schedule.envelops[1].id # 1

(***************************************************************************)
(* SpecServer: the unreplicated server in an open environment that sends   *)
(* it requests in any order, any number of times                           *)
(***************************************************************************)

\* the highest seq of the requests of the open environment
MaxSeq == 3

\* the number of clients of the search model
NumClient == 2

OpenRequests ==
    {unreplicated_Request(client_id, seq, op) :
        client_id \in 0 .. (NumClient - 1), seq \in 1 .. MaxSeq, op \in {"x", "y"}}

InitServer ==
    /\ InitIdle
    /\ unreplicated = State_new(0)
    /\ schedule = Schedule_new
    /\ search = NoSearch

\* model::State::send of a Request for the server
ServerRecv(request) ==
    /\ unreplicated.status = "running"
    /\ unreplicated' = State_send_message(unreplicated, AddrServer, request)
    /\ UNCHANGED <<replica, client, network, faulty, inline, delivered, schedule, search>>

NextServer == \E request \in OpenRequests : ServerRecv(request)

SpecServer == InitServer /\ [][NextServer]_vars

\* C15: in every state the server reaches, a request with a seq below the
\* cached reply's changes nothing and sends nothing, one with the cached seq
\* only sends the cached reply, and any other is executed, cached and
\* replied to; over every step the cached seq of a client does not decrease
\* and no (client_id, seq) is executed twice
C15_AtMostOnce ==
    [][LET sv == unreplicated.server
           after == unreplicated'.server
       IN  /\ \A request \in OpenRequests :
                LET id == request.client_id
                    handled == ServerState_on_request(sv, request)
                IN  IF id \in DOMAIN sv.replies /\ sv.replies[id].seq > request.seq
                    THEN handled = sv
                    ELSE IF id \in DOMAIN sv.replies /\ sv.replies[id].seq = request.seq
                    THEN handled = [sv EXCEPT !.out = {<<request.client_addr,
                                                         sv.replies[id]>>}]
                    ELSE /\ handled.app = Append(sv.app, request.op)
                         /\ handled.executed = Append(sv.executed, <<id, request.seq>>)
                         /\ handled.replies[id].seq = request.seq
                         /\ handled.out = {<<request.client_addr, handled.replies[id]>>}
           /\ \A id \in DOMAIN sv.replies :
                /\ id \in DOMAIN after.replies
                /\ after.replies[id].seq >= sv.replies[id].seq
           /\ \A j, k \in DOMAIN after.executed :
                after.executed[j] = after.executed[k] => j = k]_vars

\* the server executed seq 1 and then MaxSeq of a client, never the seq
\* between them, and holds a reply for every client
C15_Witness ==
    /\ DOMAIN unreplicated.server.replies = 0 .. (NumClient - 1)
    /\ \E id \in 0 .. (NumClient - 1) :
        /\ <<id, 1>> \in Range(unreplicated.server.executed)
        /\ <<id, MaxSeq>> \in Range(unreplicated.server.executed)
        /\ <<id, MaxSeq - 1>> \notin Range(unreplicated.server.executed)

(***************************************************************************)
(* SpecUnrep: the search model of the unreplicated protocol, one or two    *)
(* clients with a close-loop workload; FairSpecUnrep adds that an event    *)
(* that changes the state is eventually taken                              *)
(***************************************************************************)

InitUnrep ==
    /\ InitIdle
    /\ \E num_client \in 1 .. NumClient :
            unreplicated = State_init(State_new(num_client))
    /\ schedule = Schedule_new
    /\ search = NoSearch

\* the search takes a message of model::State::events
UnrepMessage(m) ==
    /\ unreplicated.status = "running"
    /\ m \in unreplicated.network
    /\ unreplicated' = State_send_message(unreplicated, m[1], m[2])
    /\ UNCHANGED <<replica, client, network, faulty, inline, delivered, schedule, search>>

\* the search takes a timer of model::State::events
UnrepTimer(index, id) ==
    /\ unreplicated.status = "running"
    /\ index + 1 \in DOMAIN unreplicated.clients
    /\ \E k \in DOMAIN Schedule_events(unreplicated.clients[index + 1].schedule) :
            Schedule_events(unreplicated.clients[index + 1].schedule)[k].id = id
    /\ unreplicated' = State_send_timer(unreplicated, index, id)
    /\ UNCHANGED <<replica, client, network, faulty, inline, delivered, schedule, search>>

NextUnrep ==
    \/ \E m \in unreplicated.network : UnrepMessage(m)
    \/ \E index \in 0 .. (NumClient - 1), id \in 1 .. WorkloadLen : UnrepTimer(index, id)

SpecUnrep == InitUnrep /\ [][NextUnrep]_vars

FairSpecUnrep == InitUnrep /\ [][NextUnrep]_vars /\ WF_vars(NextUnrep)

\* C12: a client of the search model has an outstanding invocation exactly
\* when its Schedule holds one ClientResend entry, whose id is the one the
\* outstanding invocation stores; ticks keep it so and completions too
C12_ScheduleBookkeeping ==
    \A k \in DOMAIN unreplicated.clients :
        LET c == unreplicated.clients[k]
        IN  IF IsSome(c.outstanding)
            THEN /\ Len(c.schedule.envelops) = 1
                 /\ c.schedule.envelops[1].id = c.outstanding[1].timer
                 /\ c.schedule.envelops[1].event = "ClientResend"
            ELSE c.schedule.envelops = <<>>

\* a client completed its first invocation and has its second outstanding,
\* and another client completed its workload
C12_Witness ==
    \E j, k \in DOMAIN unreplicated.clients :
        /\ unreplicated.clients[j].seq = WorkloadLen
        /\ IsSome(unreplicated.clients[j].outstanding)
        /\ Len(unreplicated.clients[j].upcalls) = WorkloadLen - 1
        /\ Len(unreplicated.clients[k].upcalls) = WorkloadLen
        /\ ~IsSome(unreplicated.clients[k].outstanding)

\* every client has been upcalled for every op of its workload
WorkloadDone ==
    \A k \in DOMAIN unreplicated.clients :
        Len(unreplicated.clients[k].upcalls) = WorkloadLen

\* C16: every invocation of the close-loop workload eventually completes
\* with an upcall; the j-th upcall of a client is for its invocation of seq
\* j, one upcall for each, and its result is the result of a Reply with seq
\* j sent to the client
C16_EndToEnd ==
    /\ [](\A k \in DOMAIN unreplicated.clients :
            \A j \in DOMAIN unreplicated.clients[k].upcalls :
                /\ unreplicated.clients[k].upcalls[j].seq = j
                /\ <<unreplicated.clients[k].addr,
                     unreplicated_Reply(j, unreplicated.clients[k].upcalls[j].result)>>
                        \in unreplicated.network)
    /\ <>WorkloadDone

\* the only client has been upcalled for every op of its workload
C16_Witness ==
    /\ Len(unreplicated.clients) = 1
    /\ WorkloadDone

(***************************************************************************)
(* SpecSlots: one replica with inline crypto work, in an open environment  *)
(* that sends pre-prepares and prepares for two op_nums in any order       *)
(***************************************************************************)

\* the op_num after the first
SecondOp == NewReplica(0).op_num + 2

\* the pre-prepare of the primary and the prepare of f for op_num
SlotPrePrepare(op_num) ==
    ToReplicaPrePrepare(sign(0, PrePrepare(0, op_num, sha256(BatchX))), BatchX)

SlotPrepare(f, op_num) == sign(f, Prepare(0, op_num, sha256(BatchX), f))

OpenSlots(f) ==
    {SlotPrepare(f, op_num) : op_num \in 1 .. SecondOp}
    \cup (IF f = 0 THEN {SlotPrePrepare(op_num) : op_num \in 1 .. SecondOp} ELSE {})

InitSlots ==
    /\ replica = [i \in ReplicaIds |-> NewReplica(i)]
    /\ client = NewClient
    /\ network = {}
    /\ delivered = {}
    /\ faulty = ReplicaIds \ {Victim}
    /\ inline = {Victim}
    /\ unreplicated = State_new(0)
    /\ schedule = Schedule_new
    /\ search = NoSearch

NextSlots ==
    \E f \in ReplicaIds, i \in ReplicaIds :
        \E m \in OpenSlots(f) : FaultyDeliver(f, i, m)

SpecSlots == InitSlots /\ [][NextSlots]_vars

\* C23: a replica that follows the protocol has not failed, and every entry
\* of its log whose prepares are frozen holds a pre-prepare
C23_PreparedNeedsPrePrepare ==
    \A i \in ReplicaIds \ faulty :
        /\ replica[i].status # "panicked"
        /\ \A op_num \in 1 .. SecondOp :
            (LogHas(replica[i], op_num) /\ LogAt(replica[i], op_num).prepares # {})
                => IsSome(LogAt(replica[i], op_num).pre_prepare)

(***************************************************************************)
(* Properties of the votes a replica counts, checked under SpecReplica     *)
(***************************************************************************)

\* the votes replica i has counted for op_num: the ones in the scratch
\* quorums and the ones frozen in the log
Counted(i, op_num) ==
    (IF op_num \in DOMAIN replica[i].prepare_quorums
        THEN replica[i].prepare_quorums[op_num] ELSE {})
    \cup (IF op_num \in DOMAIN replica[i].commit_quorums
            THEN replica[i].commit_quorums[op_num] ELSE {})
    \cup Entry(i, op_num).prepares
    \cup Entry(i, op_num).commits

\* C24: at a replica that has installed the pre-prepare of op_num, every
\* prepare and commit counted toward a quorum or frozen in the log for
\* op_num carries the digest of that pre-prepare
C24_ConflictingVotes ==
    \A i \in ReplicaIds \ faulty : \A op_num \in OpNums :
        IsSome(Entry(i, op_num).pre_prepare) =>
            \A vote \in Counted(i, op_num) :
                vote.digest = Entry(i, op_num).pre_prepare[1].digest

(***************************************************************************)
(* SpecForged: one replica with the asynchronous crypto worker, in an open *)
(* environment that also sends votes whose signature is not the one of the *)
(* replica_id they carry                                                   *)
(***************************************************************************)

\* a prepare and a commit that name replica_id and are signed by f
ForgedVotes(f, replica_id) ==
    {sign(f, Prepare(0, 1, sha256(BatchX), replica_id)),
     sign(f, Commit(0, 1, sha256(BatchX), replica_id))}

OpenForged(f) ==
    (IF f = 0 THEN {FaultyPrePrepare(f, BatchX)} ELSE {})
    \cup {sign(f, Prepare(0, 1, sha256(BatchX), f))}
    \cup (IF f = NumReplica - 1
            THEN {sign(f, Commit(0, 1, sha256(BatchX), f))}
                 \cup ForgedVotes(f, f - 1)
            ELSE {})

InitForged ==
    /\ replica = [i \in ReplicaIds |-> NewReplica(i)]
    /\ client = NewClient
    /\ network = {}
    /\ delivered = {}
    /\ faulty = ReplicaIds \ {Victim}
    /\ inline = {}
    /\ unreplicated = State_new(0)
    /\ schedule = Schedule_new
    /\ search = NoSearch

NextForged ==
    \/ \E f \in ReplicaIds, i \in ReplicaIds :
            \E m \in OpenForged(f) : FaultyDeliver(f, i, m)
    \/ \E i \in ReplicaIds : WorkDone(i)

SpecForged == InitForged /\ [][NextForged]_vars

\* the jobs of the given kind for op_num in the crypto worker of replica i
InFlight(i, kind, op_num) ==
    {k \in 1 .. Len(replica[i].crypto_worker) :
        /\ replica[i].crypto_worker[k].kind = kind
        /\ replica[i].crypto_worker[k].message.op_num = op_num}

\* C25: at a running replica at most one prepare verification and at most
\* one commit verification per op_num is in the crypto worker, and while
\* the replica holds a list of verifications queued for an op_num one
\* verification for that op_num is in the crypto worker, whose completion
\* submits the next of the list
C25_OneVerificationInFlight ==
    \A i \in ReplicaIds \ faulty : \A op_num \in OpNums :
        replica[i].status = "running" =>
            /\ Cardinality(InFlight(i, "VerifyPrepare", op_num)) <= 1
            /\ Cardinality(InFlight(i, "VerifyCommit", op_num)) <= 1
            /\ op_num \in DOMAIN replica[i].on_verified_prepare
                    => InFlight(i, "VerifyPrepare", op_num) # {}
            /\ op_num \in DOMAIN replica[i].on_verified_commit
                    => InFlight(i, "VerifyCommit", op_num) # {}

\* C26: at a replica whose log[op_num].prepares is frozen prepare_quorums has
\* no entry for op_num, and at a replica whose log[op_num].commits is frozen
\* commit_quorums has no entry for op_num
C26_ScratchRemoved ==
    \A i \in ReplicaIds \ faulty : \A op_num \in OpNums :
        /\ Entry(i, op_num).prepares # {}
                => op_num \notin DOMAIN replica[i].prepare_quorums
        /\ Entry(i, op_num).commits # {}
                => op_num \notin DOMAIN replica[i].commit_quorums

\* the requests of client_id that replica i holds in its unbatched queue
Unbatched(i, client_id) ==
    {k \in 1 .. Len(replica[i].requests) : replica[i].requests[k].client_id = client_id}

\* C27: the primary holds at most one unbatched request of a client, and
\* once it has executed the client's request with seq s (the closure that
\* answers seq s is installed) it is back in its event loop to handle the
\* client's next Request, having executed the request once
C27_RequestDedup ==
    \A i \in ReplicaIds \ faulty :
        is_primary(replica[i]) =>
            /\ Cardinality(Unbatched(i, ClientId)) <= 1
            /\ (/\ ClientId \in DOMAIN replica[i].on_request
                /\ ~replica[i].on_request[ClientId].ongoing)
                    => /\ replica[i].status = "running"
                       /\ Len(replica[i].app) = replica[i].on_request[ClientId].seq

(***************************************************************************)
(* SpecPrimary: the search harness with replicas and client constructed in *)
(* a view drawn from 0 .. MaxView, to compare the three places that        *)
(* compute the primary of the view                                         *)
(***************************************************************************)

\* the highest view the system is started in
MaxView == 5

InitPrimary ==
    /\ \E view_num \in 0 .. MaxView :
        /\ replica = [i \in ReplicaIds |-> [NewReplica(i) EXCEPT !.view_num = view_num]]
        /\ client = [NewClient EXCEPT !.view_num = view_num]
    /\ network = {}
    /\ faulty = {}
    /\ inline = ReplicaIds
    /\ delivered = {}
    /\ unreplicated = State_new(0)
    /\ schedule = Schedule_new
    /\ search = NoSearch

\* the client's request reaches the replica it was sent to, the primary
\* proposes it and the replicas prepare it
NextPrimary ==
    \/ \E op \in Ops : Invoke(op)
    \/ \E i \in ReplicaIds, m \in network :
            m[2].type # "Commit" /\ Deliver(i, m)
    \/ \E i \in ReplicaIds : CloseBatch(i)

SpecPrimary == InitPrimary /\ [][NextPrimary]_vars

\* the replicas that consider themselves primary
Primaries == {i \in ReplicaIds : is_primary(replica[i])}

NumWorker == 2

\* the highest max_depth of the Settings
MaxDepth == 2

\* the initial states: a State with one client after init, as the search
\* is meant to start; the same with the client taken out of the pub field
\* clients, so that the server's Reply has no client to go to; and a State
\* on which init was not called
InitialStates ==
    {State_init(State_new(1)),
     [State_init(State_new(1)) EXCEPT !.clients = <<>>],
     State_new(1)}

SettingsSet ==
    {Settings(invariant_name, goal_name, prune_name, max_depth) :
        invariant_name \in {"always", "never", "one_op"},
        goal_name \in {"none", "second_invoke"},
        prune_name \in {"none", "executed"},
        max_depth \in 0 .. MaxDepth}

InitSearch ==
    /\ InitIdle
    /\ unreplicated = State_new(0)
    /\ schedule = Schedule_new
    /\ \E initial_state \in InitialStates, settings \in SettingsSet,
          num_worker \in 1 .. NumWorker :
            search = breadth_first(initial_state, settings, num_worker)

SearchStep(s) ==
    /\ search' = s
    /\ UNCHANGED <<replica, client, network, faulty, inline, delivered, unreplicated,
                   schedule>>

WorkerPop(w) == search.worker[w].pc = "pop" /\ SearchStep(worker_pop(search, w))

WorkerEvent(w) == search.worker[w].pc = "event" /\ SearchStep(worker_event(search, w))

WorkerAfter(w) == search.worker[w].pc = "after" /\ SearchStep(worker_after(search, w))

\* search_internal has a result and has joined every worker: breadth_first
\* returns
Return ==
    /\ search.returned = <<>>
    /\ search.result # <<>>
    /\ \A w \in DOMAIN search.worker : search.worker[w].pc = "exit"
    /\ SearchStep([search EXCEPT !.returned = <<search_result(search)>>])

NextSearch ==
    \/ \E w \in DOMAIN search.worker : WorkerPop(w)
    \/ \E w \in DOMAIN search.worker : WorkerEvent(w)
    \/ \E w \in DOMAIN search.worker : WorkerAfter(w)
    \/ Return

SpecSearch == InitSearch /\ [][NextSearch]_vars

(***************************************************************************)
(* Properties of breadth_first, checked under SpecSearch                   *)
(***************************************************************************)

\* the StateInfo recorded for a state
InfoOf(state) == CHOOSE info \in Discovered_get(search.discovered, state) : TRUE

\* the state before the k-th pair of a trace
Before(trace_, k) == IF k = 1 THEN search.initial_state ELSE trace_[k - 1][2]

\* C21: the trace returned with InvariantViolation or Err starts at the
\* initial state; the event of each pair applied to the state before it
\* yields the state of the pair, and that event and state are the
\* predecessor recorded for the state of the pair; the state of the last
\* pair is the reported state (for Err the state in which the reported event
\* fails); the length of the trace is the depth recorded for that state
C21_TraceReconstruction ==
    (search.returned # <<>>
     /\ search.returned[1].type \in {"InvariantViolation", "Err"}) =>
        LET result == search.returned[1]
            tr == result.trace
            reported == result.state[1]
        IN  /\ \A k \in 1 .. Len(tr) :
                    /\ StateKey(State_send(Before(tr, k), tr[k][1])) = StateKey(tr[k][2])
                    /\ InfoOf(tr[k][2]).prev # <<>>
                    /\ InfoOf(tr[k][2]).prev[1] = tr[k][1]
                    /\ StateKey(InfoOf(tr[k][2]).prev[2]) = StateKey(Before(tr, k))
            /\ IF tr = <<>> THEN StateKey(reported) = StateKey(search.initial_state)
                            ELSE tr[Len(tr)][2] = reported
            /\ Len(tr) = InfoOf(reported).depth
            /\ result.type = "Err" =>
                    State_send(reported, result.event[1]).status # "running"

\* breadth_first has returned Err for an event that fails in a state reached
\* from the initial state
C21_Witness ==
    /\ search.returned # <<>>
    /\ search.returned[1].type = "Err"
    /\ Len(search.returned[1].trace) >= 1

\* C22: when the invariant is always false, breadth_first returns
\* InvariantViolation with a trace that is not empty and whose first event
\* is a client Invoke
C22_FirstEventInvoke ==
    (search.returned # <<>> /\ search.settings.invariant = "never") =>
        /\ search.returned[1].type = "InvariantViolation"
        /\ search.returned[1].trace # <<>>
        /\ search.returned[1].trace[1][1].type = "Invoke"

\* the states a queue holds
Queued(s, q) == Len(s.queues[q])

\* C30: a step of breadth_first keeps every StateInfo of discovered as it
\* is and inserts at most one, for a state that was not discovered; the
\* inserted state is checked against the invariant, which ends the search
\* with InvariantViolation, then against the goal, which ends it with
\* GoalFound, and else it is pushed to the next-depth queue exactly if its
\* depth is not max_depth and it is not pruned; a step that inserts nothing
\* pushes nothing and reports neither a violation nor a goal
C30_InsertOnce ==
    [][LET new == search'.discovered \ search.discovered
           pushed(state) ==
                \E q \in 1 .. 2 : search'.queues[q] = Append(search.queues[q], state)
           ended(type, state) ==
                /\ search'.finished
                /\ search.result = <<>> =>
                        search'.result = <<[type |-> type, state |-> state]>>
       IN  /\ search.discovered \subseteq search'.discovered
           /\ Cardinality(new) <= 1
           /\ \A a, b \in search'.discovered : a.key = b.key => a = b
           /\ new = {} =>
                /\ \A q \in 1 .. 2 : Queued(search', q) <= Queued(search, q)
                /\ search'.result # search.result =>
                        search'.result[1].type \in {"Error", "SpaceExhausted"}
           /\ \A info \in new :
                IF ~invariant(search.settings, info.state)
                THEN ended("InvariantViolation", info.state) /\ ~pushed(info.state)
                ELSE IF goal(search.settings, info.state)
                THEN ended("GoalFound", info.state) /\ ~pushed(info.state)
                ELSE /\ pushed(info.state) <=>
                            (/\ info.depth # search.settings.max_depth
                             /\ ~prune(search.settings, info.state))
                     /\ search'.result = search.result]_vars

\* a worker is about to apply an event that leads to a state already
\* discovered, with another predecessor than the one recorded
C30_Witness ==
    \E w \in DOMAIN search.worker :
        /\ search.worker[w].pc = "event"
        /\ search.worker[w].events # <<>>
        /\ LET next_state == State_send(search.worker[w].state[1],
                                        Head(search.worker[w].events))
           IN  /\ Discovered_get(search.discovered, next_state) # {}
               /\ InfoOf(next_state).prev # <<>>
               /\ InfoOf(next_state).prev[2] # search.worker[w].state[1]

\* C31: when SpaceExhausted is the recorded result, both queues are empty
\* and no worker holds a state it is expanding
C31_SpaceExhausted ==
    (search.result # <<>> /\ search.result[1].type = "SpaceExhausted") =>
        /\ \A q \in 1 .. 2 : search.queues[q] = <<>>
        /\ \A w \in DOMAIN search.worker : search.worker[w].pc # "event"

(***************************************************************************)
(* SpecProbe: random_depth_first on the unreplicated model, for the        *)
(* initial states and the Settings a caller may pass; the random choice of *)
(* an event is any event of the state                                      *)
(***************************************************************************)

\* the number of steps after which a probe without max_depth is left alone
MaxProbe == 3

InitProbe ==
    /\ InitIdle
    /\ unreplicated = State_new(0)
    /\ schedule = Schedule_new
    /\ \E initial_state \in InitialStates, settings \in SettingsSet,
          num_worker \in 1 .. NumWorker :
            search = random_depth_first(initial_state, settings, num_worker)

ProbeStart(w) == search.worker[w].pc = "probe" /\ SearchStep(probe_start(search, w))

ProbeNoEvent(w) ==
    /\ search.worker[w].pc = "step"
    /\ State_events(search.worker[w].state) = <<>>
    /\ SearchStep(probe_no_event(search, w))

ProbeStep(w) ==
    /\ search.worker[w].pc = "step"
    /\ Len(search.worker[w].trace) < MaxProbe
    /\ \E event \in Range(State_events(search.worker[w].state)) :
            SearchStep(probe_step(search, w, event))

NextProbe ==
    \/ \E w \in DOMAIN search.worker : ProbeStart(w)
    \/ \E w \in DOMAIN search.worker : ProbeNoEvent(w)
    \/ \E w \in DOMAIN search.worker : ProbeStep(w)

SpecProbe == InitProbe /\ [][NextProbe]_vars

\* the states of a probe: the initial state and the states of its trace
ProbeStates(trace_) ==
    <<search.initial_state>> \o [k \in 1 .. Len(trace_) |-> trace_[k][2]]

\* a probe goes on only from a state that does not end it
EndsProbe(state) ==
    \/ ~invariant(search.settings, state)
    \/ goal(search.settings, state)
    \/ prune(search.settings, state)

\* every pair of the trace is an event of the state before it and the state
\* that event leads to
IsProbe(trace_) ==
    \A k \in 1 .. Len(trace_) :
        /\ trace_[k][1] \in Range(State_events(ProbeStates(trace_)[k]))
        /\ trace_[k][2] = State_send(ProbeStates(trace_)[k], trace_[k][1])

\* C32: the trace of every worker is a probe from the initial state of at
\* most max_depth steps, no state of it before its last state ends a probe,
\* and a worker that goes on with its probe is at a state that does not end
\* it; the trace reported with InvariantViolation is such a probe, and its
\* last state violates the invariant
C32_Probe ==
    /\ \A w \in DOMAIN search.worker :
        LET me == search.worker[w]
        IN  /\ IsProbe(me.trace)
            /\ search.settings.max_depth # 0 => Len(me.trace) <= search.settings.max_depth
            /\ \A k \in 1 .. Len(me.trace) : ~EndsProbe(ProbeStates(me.trace)[k])
            /\ me.pc = "step" => ~EndsProbe(me.state)
    /\ (search.result # <<>> /\ search.result[1].type = "InvariantViolation") =>
        LET tr == search.result[1].trace
        IN  /\ IsProbe(tr)
            /\ tr # <<>>
            /\ ~invariant(search.settings, tr[Len(tr)][2])
            /\ \A k \in 1 .. Len(tr) : ~EndsProbe(ProbeStates(tr)[k])

(***************************************************************************)
(* SpecNet: the virtual network of the search harness under unicasts and   *)
(* the All broadcasts of a replica and of a client                         *)
(***************************************************************************)

\* Network::send: BTreeSet::insert of the pair
Network_send(messages, remote, message) == messages \cup {<<remote, message>>}

\* SendMessage<All, M> of NetworkContext: one send for every address of all
RECURSIVE NetworkContext_send_All(_, _, _)
NetworkContext_send_All(state, all, message) ==
    IF all = <<>> THEN state
    ELSE NetworkContext_send_All(Network_send(state, Head(all), message), Tail(all), message)

\* the addresses 0 .. replicas.len() of State::send
AllReplicas == [k \in 1 .. NumReplica |-> ReplicaAddr(k - 1)]

\* the all of the NetworkContext of a client
ClientAll == AllReplicas

\* an all of a replica that keeps the replica itself
ReplicaAll_with_self(index) == AllReplicas

\* the all of the NetworkContext of replica index
ReplicaAll(index) == SelectSeq(AllReplicas, LAMBDA addr : addr # ReplicaAddr(index))

\* the messages sent in SpecNet
NetMessages ==
    {ToReplicaRequest(Request(1, "a")),
     sign(1, Prepare(0, 1, sha256(<<Request(1, "a")>>), 1))}

NetAddrs == {ClientAddr} \cup Range(AllReplicas)

InitNet ==
    /\ InitIdle
    /\ unreplicated = State_new(0)
    /\ schedule = Schedule_new
    /\ search = NoSearch

NetStep(messages) ==
    /\ network' = messages
    /\ UNCHANGED <<replica, client, faulty, inline, delivered, unreplicated, schedule, search>>

NetSend(remote, message) == NetStep(Network_send(network, remote, message))

ReplicaBroadcast(index, message) ==
    NetStep(NetworkContext_send_All(network, ReplicaAll(index), message))

ClientBroadcast(message) ==
    NetStep(NetworkContext_send_All(network, ClientAll, message))

NextNet ==
    \/ \E remote \in NetAddrs, message \in NetMessages : NetSend(remote, message)
    \/ \E index \in ReplicaIds, message \in NetMessages : ReplicaBroadcast(index, message)
    \/ \E message \in NetMessages : ClientBroadcast(message)

SpecNet == InitNet /\ [][NextNet]_vars

\* C33: on every network, sending a pair that is present changes nothing and
\* sending any pair adds that pair and nothing else; the broadcast of replica
\* index adds the pairs of the other replicas, one send each, and nothing
\* else, as send_to_all of the replica model does; the broadcast of a client
\* adds the pairs of all replicas, one send each, and nothing else
C33_NetworkSet ==
    \A message \in NetMessages :
        /\ \A remote \in NetAddrs :
            /\ <<remote, message>> \in network =>
                    Network_send(network, remote, message) = network
            /\ Network_send(network, remote, message) \ network \subseteq {<<remote, message>>}
            /\ <<remote, message>> \in Network_send(network, remote, message)
            /\ network \subseteq Network_send(network, remote, message)
        /\ \A index \in ReplicaIds :
            LET after == NetworkContext_send_All(network, ReplicaAll(index), message)
                others == ReplicaIds \ {index}
            IN  /\ after = network \cup {<<ReplicaAddr(j), message>> : j \in others}
                /\ Len(ReplicaAll(index)) = Cardinality(others)
                /\ <<ReplicaAddr(index), message>> \in after =>
                        <<ReplicaAddr(index), message>> \in network
                /\ send_to_all(replica[index], message).out =
                        NetworkContext_send_All({}, ReplicaAll(index), message)
        /\ LET after == NetworkContext_send_All(network, ClientAll, message)
           IN  /\ after = network \cup {<<ReplicaAddr(j), message>> : j \in ReplicaIds}
               /\ Len(ClientAll) = Cardinality(ReplicaIds)

\* a replica's broadcast of one message and a client's broadcast of another
\* are in the network: the first has reached all replicas but one, the second
\* all replicas
C33_Witness ==
    \E m1 \in NetMessages, m2 \in NetMessages, index \in ReplicaIds :
        /\ m1 # m2
        /\ {a \in NetAddrs : <<a, m1>> \in network} = Range(ReplicaAll(index))
        /\ {a \in NetAddrs : <<a, m2>> \in network} = Range(ClientAll)

\* C34: a correct replica that has passed through the body of the while loop
\* of insert_commit finds the condition of the loop false at the next test,
\* so that the handler returns
C34_CommitLoopTerminates ==
    \A i \in ReplicaIds \ faulty :
        replica[i].status = "looping" =>
            ~(/\ LogHas(replica[i], replica[i].commit_num + 1)
              /\ LogAt(replica[i], replica[i].commit_num + 1).commits # {})

\* C35: a step in which the client takes its outstanding invocation, which
\* is the handling of the f+1-th matching Reply, leaves the handler without
\* an error, has unset the resend timer of the invocation and has upcalled
\* the result, whether or not the ResendTimeout of the invocation was
\* handled before
C35_CompletesAfterResend ==
    [][(IsSome(client.invoke) /\ ~IsSome(client'.invoke)) =>
            /\ client'.status = "running"
            /\ client.invoke[1].resend_timer \notin client'.timers
            /\ Len(client'.upcalls) = Len(client.upcalls) + 1
            /\ client'.upcalls[Len(client'.upcalls)].seq = client.seq]_vars

(***************************************************************************)
(* FairSpecSearch: SpecSearch in which every worker thread that can take a *)
(* step is scheduled, and search_internal goes on once its joins return    *)
(***************************************************************************)

WorkerRun(w) ==
    /\ w \in DOMAIN search.worker
    /\ (WorkerPop(w) \/ WorkerEvent(w) \/ WorkerAfter(w))

FairSpecSearch ==
    /\ SpecSearch
    /\ \A w \in 1 .. NumWorker : WF_vars(WorkerRun(w))
    /\ WF_vars(Return)

\* C36: once a result is recorded every worker exits and breadth_first
\* returns
C36_WorkersExit ==
    (search.result # <<>>) ~>
        (/\ \A w \in DOMAIN search.worker : search.worker[w].pc = "exit"
         /\ search.returned # <<>>)

Expanded(state) ==
    \/ state = search.initial_state
    \/ /\ invariant(search.settings, state)
       /\ ~goal(search.settings, state)
       /\ ~prune(search.settings, state)

\* the states an expanded state of states leads to by one of its own events
Step(states) ==
    UNION {{next_state \in {State_send(state, event) :
                                event \in Range(State_events(state))} :
                next_state.status = "running"} :
           state \in {state \in states : Expanded(state)}}

\* the least number of events that lead from the states of reached, which
\* are k events away from the initial state or less, to the state target
\* through expanded states; -1 when no number of events does
RECURSIVE Distance(_, _, _)
Distance(reached, k, target) ==
    IF \E state \in reached : StateKey(state) = StateKey(target) THEN k
    ELSE IF Step(reached) \subseteq reached THEN 0 - 1
    ELSE Distance(reached \cup Step(reached), k + 1, target)

\* C38: the depth recorded for a discovered state is the least number of
\* events that lead to it from the initial state through expanded states,
\* the predecessor recorded for it is a discovered state of the depth
\* before, and the trace returned with a violation or an error is as long as
\* that least number for the state before its last event, plus one
C38_MinimalDepth ==
    /\ \A info \in search.discovered :
        /\ info.depth = Distance({search.initial_state}, 0, info.state)
        /\ info.prev # <<>> =>
                /\ Discovered_get(search.discovered, info.prev[2]) # {}
                /\ InfoOf(info.prev[2]).depth + 1 = info.depth
    /\ (search.returned # <<>> /\ search.returned[1].trace # <<>>) =>
        LET tr == search.returned[1].trace
        IN  Len(tr) = Distance({search.initial_state}, 0, Before(tr, Len(tr))) + 1

\* with two workers, a state of depth 2 or more is discovered, a discovered
\* state leads by one of its events to a state discovered with a lower or
\* equal depth, whose recorded predecessor is another state, and
\* breadth_first has returned a trace
C38_Witness ==
    /\ Len(search.worker) = 2
    /\ \E info \in search.discovered : info.depth >= 2
    /\ \E info, other \in search.discovered :
        /\ info.prev # <<>>
        /\ StateKey(info.prev[2]) # other.key
        /\ other.depth + 1 > info.depth
        /\ \E event \in Range(State_events(other.state)) :
                StateKey(State_send(other.state, event)) = info.key
    /\ search.returned # <<>>
    /\ search.returned[1].trace # <<>>

(***************************************************************************)
(* SpecInvoke: SpecUnrep in which the caller of a client also sends it an  *)
(* Invoke of its own, whether or not an invocation is outstanding          *)
(***************************************************************************)

\* the op of an Invoke that does not come from the close loop
CallerOp(index) == <<"op", index, 0>>

\* client index handles Invoke(op); what it sends joins the network and its
\* error is the error of the step
InvokeAt(state, index, op) ==
    Collect([state EXCEPT !.clients[index + 1] = ClientState_on_invoke(@, op)])

UnrepInvoke(index) ==
    /\ unreplicated.status = "running"
    /\ index + 1 \in DOMAIN unreplicated.clients
    /\ unreplicated.clients[index + 1].seq <= MaxSeq
    /\ unreplicated' = InvokeAt(unreplicated, index, CallerOp(index))
    /\ UNCHANGED <<replica, client, network, faulty, inline, delivered, schedule, search>>

NextInvoke ==
    \/ \E m \in unreplicated.network : UnrepMessage(m)
    \/ \E index \in 0 .. (NumClient - 1), id \in 1 .. (MaxSeq + 1) : UnrepTimer(index, id)
    \/ \E index \in 0 .. (NumClient - 1) : UnrepInvoke(index)

SpecInvoke == InitUnrep /\ [][NextInvoke]_vars

\* C39: a step in which a client with an outstanding invocation handles an
\* Invoke fails, and leaves the seq, the outstanding invocation and the
\* schedule of the client as they were
C39_RefusedInvoke ==
    [][\A index \in 0 .. (NumClient - 1) :
        (/\ index + 1 \in DOMAIN unreplicated.clients
         /\ IsSome(unreplicated.clients[index + 1].outstanding)
         /\ unreplicated' = InvokeAt(unreplicated, index, CallerOp(index)))
            => /\ unreplicated'.status = "failed"
               /\ unreplicated'.clients[index + 1].status = "failed"
               /\ unreplicated'.clients[index + 1].seq
                    = unreplicated.clients[index + 1].seq
               /\ unreplicated'.clients[index + 1].outstanding
                    = unreplicated.clients[index + 1].outstanding
               /\ unreplicated'.clients[index + 1].schedule
                    = unreplicated.clients[index + 1].schedule]_vars

====
